---- MODULE Spec2Model ----
(***************************************************************************)
(* Task Manager with user authentication: the credential store             *)
(* (project/task_manager/user.py, class UserAuth) and the per-user task    *)
(* store (project/Course 1/task_manager/task.py, class TaskManager).       *)
(*                                                                         *)
(* Python strings are sequences of one-character strings, None is the      *)
(* empty option <<>> and a present optional value v is <<v>>.  A JSON file *)
(* is a record [valid, data]: json.load succeeds exactly when valid.       *)
(* Timestamps are readings of the clock `now`.                             *)
(***************************************************************************)
EXTENDS Integers, Sequences, FiniteSets, TLC

VARIABLES
    users_file,   \* data/users.json: [exists, valid, data]
    files,        \* task files: path -> [valid, data], domain = existing files
    managers,     \* usernames a TaskManager instance has been constructed for
    now,          \* the clock read by _get_timestamp
    ret,          \* the call made last and what it returned
    issued,       \* history: per username, the ids successful add_task calls returned
    registered,   \* history: username -> plaintext of its successful register
    current_user, \* TaskManagerApp.current_user: None or the username
    task_manager, \* TaskManagerApp.task_manager: None or the username it is bound to
    menu,         \* the menu loop the driver is in: "main" or "task"
    inflight      \* per TaskManager instance, the add_task call it is in the middle of

vars ==
    <<users_file, files, managers, now, ret, issued, registered,
      current_user, task_manager, menu, inflight>>

----------------------------------------------------------------------------
(* Bounds of the model *)

MaxTime == 1
MaxAdds == 2

----------------------------------------------------------------------------
(* Python values *)

None == <<>>
Some(v) == <<v>>

Whitespace == {" "}
Letters == {"a", "b", "c", "d", "x", "A", "p", "q"}
Digits == {"1"}

RECURSIVE LStrip(_)
LStrip(s) ==
    IF s # <<>> /\ Head(s) \in Whitespace THEN LStrip(Tail(s)) ELSE s

RECURSIVE RStrip(_)
RStrip(s) ==
    IF s # <<>> /\ s[Len(s)] \in Whitespace
    THEN RStrip(SubSeq(s, 1, Len(s) - 1))
    ELSE s

\* str.strip()
Strip(s) == RStrip(LStrip(s))

\* str.replace(c, "") for a one-character c
RECURSIVE RemoveChar(_, _)
RemoveChar(s, c) ==
    IF s = <<>> THEN <<>>
    ELSE IF Head(s) = c THEN RemoveChar(Tail(s), c)
    ELSE <<Head(s)>> \o RemoveChar(Tail(s), c)

\* str.isalnum(): at least one character and all of them letters or digits
IsAlnum(s) == s # <<>> /\ \A i \in 1..Len(s) : s[i] \in Letters \cup Digits

----------------------------------------------------------------------------
(* The credential store: class UserAuth *)

\* The call made last: its name, its arguments (user, password, task_id and
\* the keys of **kwargs) and
\* the tuple it returned (ok, msg, and add_task's id).
Result(op, user, password, task_id, keys, ok, msg, id) ==
    [op |-> op, user |-> user, password |-> password, task_id |-> task_id,
     keys |-> keys, ok |-> ok, msg |-> msg, id |-> id]

\* str.encode(): the byte of a character
CharCode(c) ==
    CASE c = "p" -> 112 [] c = "q" -> 113 [] c = "a" -> 97 [] c = "b" -> 98
      [] c = "c" -> 99 [] c = "d" -> 100 [] c = "x" -> 120 [] c = "A" -> 65
      [] c = "1" -> 49 [] c = "_" -> 95 [] c = "-" -> 45 [] c = " " -> 32
      [] OTHER -> 63

HexDigit(n) ==
    <<"0", "1", "2", "3", "4", "5", "6", "7",
      "8", "9", "a", "b", "c", "d", "e", "f">>[n + 1]

\* The digest as a number.  A stand-in for SHA-256 with its properties at the
\* model's scale: deterministic, every byte of the input mixed in, the output
\* of one fixed width whatever the input's length, and no two passwords of
\* the model with the same digest.
RECURSIVE Sha256(_, _)
Sha256(bytes, h) ==
    IF bytes = <<>> THEN h
    ELSE Sha256(Tail(bytes), (h * 131 + CharCode(Head(bytes))) % (16 * 16 * 16 * 16))

\* hexdigest(): the digest as a fixed number of hex digits
HexDigest(h) ==
    <<HexDigit(h \div (16 * 16 * 16)), HexDigit((h \div (16 * 16)) % 16),
      HexDigit((h \div 16) % 16), HexDigit(h % 16)>>

_hash_password(password) == HexDigest(Sha256(password, 7))

\* A JSON file on disk
MissingFile == [exists |-> FALSE, valid |-> FALSE, data |-> <<>>]
JsonFile(data) == [exists |-> TRUE, valid |-> TRUE, data |-> data]

\* dict assignment d[k] = v
DictSet(d, k, v) == [x \in DOMAIN d \cup {k} |-> IF x = k THEN v ELSE d[x]]

_ensure_users_file(f) == IF ~f.exists THEN JsonFile(<<>>) ELSE f

_load_users(f) == IF f.exists /\ f.valid THEN f.data ELSE <<>>

_save_users(users) == JsonFile(users)

\* Mutant of register: no check for a username that exists
register_NoDuplicateCheck(f, username, password, t) ==
    LET users == _load_users(f) IN
    IF username = <<>> \/ password = <<>> THEN
        [ok |-> FALSE, msg |-> "Username and password cannot be empty",
         save |-> FALSE, users |-> users]
    ELSE IF Len(username) < 3 THEN
        [ok |-> FALSE, msg |-> "Username must be at least 3 characters long",
         save |-> FALSE, users |-> users]
    ELSE IF Len(password) < 6 THEN
        [ok |-> FALSE, msg |-> "Password must be at least 6 characters long",
         save |-> FALSE, users |-> users]
    ELSE IF ~IsAlnum(RemoveChar(username, "_")) THEN
        [ok |-> FALSE,
         msg |-> "Username can only contain letters, numbers, and underscores",
         save |-> FALSE, users |-> users]
    ELSE
        [ok |-> TRUE, msg |-> "Registration successful!", save |-> TRUE,
         users |-> DictSet(users, username,
                           [password |-> _hash_password(password),
                            created_at |-> t])]

\* register's return value and the dictionary it saves (save = FALSE: no write)
\* Mutant of register: success is returned without the write
register_SkipsSave(f, username, password, t) ==
    LET users == _load_users(f) IN
    IF username = <<>> \/ password = <<>> THEN
        [ok |-> FALSE, msg |-> "Username and password cannot be empty",
         save |-> FALSE, users |-> users]
    ELSE IF Len(username) < 3 THEN
        [ok |-> FALSE, msg |-> "Username must be at least 3 characters long",
         save |-> FALSE, users |-> users]
    ELSE IF Len(password) < 6 THEN
        [ok |-> FALSE, msg |-> "Password must be at least 6 characters long",
         save |-> FALSE, users |-> users]
    ELSE IF ~IsAlnum(RemoveChar(username, "_")) THEN
        [ok |-> FALSE,
         msg |-> "Username can only contain letters, numbers, and underscores",
         save |-> FALSE, users |-> users]
    ELSE IF username \in DOMAIN users THEN
        [ok |-> FALSE, msg |-> "Username already exists",
         save |-> FALSE, users |-> users]
    ELSE
        [ok |-> TRUE, msg |-> "Registration successful!", save |-> FALSE,
         users |-> DictSet(users, username,
                           [password |-> _hash_password(password),
                            created_at |-> t])]

\* Mutant of register: a duplicate is refused but its record is written anew
register_TouchesDuplicate(f, username, password, t) ==
    LET users == _load_users(f) IN
    IF username = <<>> \/ password = <<>> THEN
        [ok |-> FALSE, msg |-> "Username and password cannot be empty",
         save |-> FALSE, users |-> users]
    ELSE IF Len(username) < 3 THEN
        [ok |-> FALSE, msg |-> "Username must be at least 3 characters long",
         save |-> FALSE, users |-> users]
    ELSE IF Len(password) < 6 THEN
        [ok |-> FALSE, msg |-> "Password must be at least 6 characters long",
         save |-> FALSE, users |-> users]
    ELSE IF ~IsAlnum(RemoveChar(username, "_")) THEN
        [ok |-> FALSE,
         msg |-> "Username can only contain letters, numbers, and underscores",
         save |-> FALSE, users |-> users]
    ELSE IF username \in DOMAIN users THEN
        [ok |-> FALSE, msg |-> "Username already exists",
         save |-> TRUE,
         users |-> DictSet(users, username,
                           [password |-> _hash_password(password),
                            created_at |-> t])]
    ELSE
        [ok |-> TRUE, msg |-> "Registration successful!", save |-> TRUE,
         users |-> DictSet(users, username,
                           [password |-> _hash_password(password),
                            created_at |-> t])]

\* Mutant of register: the password is stored as it was given
register_StoresPlaintext(f, username, password, t) ==
    LET users == _load_users(f) IN
    IF username = <<>> \/ password = <<>> THEN
        [ok |-> FALSE, msg |-> "Username and password cannot be empty",
         save |-> FALSE, users |-> users]
    ELSE IF Len(username) < 3 THEN
        [ok |-> FALSE, msg |-> "Username must be at least 3 characters long",
         save |-> FALSE, users |-> users]
    ELSE IF Len(password) < 6 THEN
        [ok |-> FALSE, msg |-> "Password must be at least 6 characters long",
         save |-> FALSE, users |-> users]
    ELSE IF ~IsAlnum(RemoveChar(username, "_")) THEN
        [ok |-> FALSE,
         msg |-> "Username can only contain letters, numbers, and underscores",
         save |-> FALSE, users |-> users]
    ELSE IF username \in DOMAIN users THEN
        [ok |-> FALSE, msg |-> "Username already exists",
         save |-> FALSE, users |-> users]
    ELSE
        [ok |-> TRUE, msg |-> "Registration successful!", save |-> TRUE,
         users |-> DictSet(users, username,
                           [password |-> password, created_at |-> t])]

register(f, username, password, t) ==
    LET users == _load_users(f) IN
    IF username = <<>> \/ password = <<>> THEN
        [ok |-> FALSE, msg |-> "Username and password cannot be empty",
         save |-> FALSE, users |-> users]
    ELSE IF Len(username) < 3 THEN
        [ok |-> FALSE, msg |-> "Username must be at least 3 characters long",
         save |-> FALSE, users |-> users]
    ELSE IF Len(password) < 6 THEN
        [ok |-> FALSE, msg |-> "Password must be at least 6 characters long",
         save |-> FALSE, users |-> users]
    ELSE IF ~IsAlnum(RemoveChar(username, "_")) THEN
        [ok |-> FALSE,
         msg |-> "Username can only contain letters, numbers, and underscores",
         save |-> FALSE, users |-> users]
    ELSE IF username \in DOMAIN users THEN
        [ok |-> FALSE, msg |-> "Username already exists",
         save |-> FALSE, users |-> users]
    ELSE
        [ok |-> TRUE, msg |-> "Registration successful!", save |-> TRUE,
         users |-> DictSet(users, username,
                           [password |-> _hash_password(password),
                            created_at |-> t])]

\* Mutants of login: the stored value compared with the plaintext; a message
\* of its own for a username that is not registered
login_ComparesPlaintext(f, username, password) ==
    LET users == _load_users(f) IN
    IF username = <<>> \/ password = <<>> THEN
        [ok |-> FALSE, msg |-> "Username and password cannot be empty"]
    ELSE IF username \notin DOMAIN users THEN
        [ok |-> FALSE, msg |-> "Invalid username or password"]
    ELSE IF users[username].password = password THEN
        [ok |-> TRUE, msg |-> "Login successful!"]
    ELSE
        [ok |-> FALSE, msg |-> "Invalid username or password"]

login_UserNotFound(f, username, password) ==
    LET users == _load_users(f) IN
    IF username = <<>> \/ password = <<>> THEN
        [ok |-> FALSE, msg |-> "Username and password cannot be empty"]
    ELSE IF username \notin DOMAIN users THEN
        [ok |-> FALSE, msg |-> "User not found"]
    ELSE IF users[username].password = _hash_password(password) THEN
        [ok |-> TRUE, msg |-> "Login successful!"]
    ELSE
        [ok |-> FALSE, msg |-> "Invalid username or password"]

\* login's return value
login(f, username, password) ==
    LET users == _load_users(f) IN
    IF username = <<>> \/ password = <<>> THEN
        [ok |-> FALSE, msg |-> "Username and password cannot be empty"]
    ELSE IF username \notin DOMAIN users THEN
        [ok |-> FALSE, msg |-> "Invalid username or password"]
    ELSE IF users[username].password = _hash_password(password) THEN
        [ok |-> TRUE, msg |-> "Login successful!"]
    ELSE
        [ok |-> FALSE, msg |-> "Invalid username or password"]

----------------------------------------------------------------------------
(* The task store: class TaskManager *)

Low == <<"L", "o", "w">>
Medium == <<"M", "e", "d", "i", "u", "m">>
High == <<"H", "i", "g", "h">>
Priorities == {Low, Medium, High}

\* Mutant of tasks_file: one file for every user
tasks_file_Shared(username) ==
    <<"data/tasks", "/", "t", "a", "s", "k", "s", ".", "j", "s", "o", "n">>

\* tasks_file of __init__: os.path.join(tasks_dir, f"{username}_tasks.json")
tasks_file(username) ==
    <<"data/tasks", "/">> \o username
        \o <<"_", "t", "a", "s", "k", "s", ".", "j", "s", "o", "n">>

\* open(path, "w") followed by json.dump(data)
WriteFile(fs, path, data) ==
    [p \in DOMAIN fs \cup {path} |-> IF p = path THEN JsonFile(data) ELSE fs[p]]

_ensure_tasks_file(fs, path) ==
    IF path \notin DOMAIN fs THEN WriteFile(fs, path, <<>>) ELSE fs

\* Mutant of _load_tasks: what is left in a file that does not parse is
\* returned
_load_tasks_ReadsCorrupt(fs, path) ==
    IF path \in DOMAIN fs THEN fs[path].data ELSE <<>>

_load_tasks(fs, path) ==
    IF path \in DOMAIN fs /\ fs[path].valid THEN fs[path].data ELSE <<>>

_save_tasks(fs, path, tasks) == WriteFile(fs, path, tasks)

_get_timestamp == now

MaxOf(S) == CHOOSE m \in S : \A n \in S : n <= m

\* Mutants of _get_next_id: the number of tasks; the largest id itself
GetNextId_Count(tasks) == Len(tasks)

GetNextId_NoIncrement(tasks) ==
    IF tasks = <<>> THEN 1
    ELSE MaxOf({tasks[i].id : i \in 1..Len(tasks)})

_get_next_id(tasks) ==
    IF tasks = <<>> THEN 1
    ELSE MaxOf({tasks[i].id : i \in 1..Len(tasks)}) + 1

\* The position of the first task with this id, 0 when there is none: where
\* the loops `for task in tasks: if task["id"] == task_id: ... break` stop.
FirstWithId(tasks, task_id) ==
    IF \E i \in 1..Len(tasks) : tasks[i].id = task_id
    THEN CHOOSE i \in 1..Len(tasks) :
            /\ tasks[i].id = task_id
            /\ \A j \in 1..(i - 1) : tasks[j].id # task_id
    ELSE 0

\* Mutants of add_task: a title of whitespace only is accepted; the supplied
\* priority is stored whatever it is
add_task_OnlyEmptyCheck(fs, path, title, description, priority, due_date, t) ==
    IF title = <<>> THEN
        [ok |-> FALSE, msg |-> "Task title cannot be empty", id |-> None,
         save |-> FALSE, tasks |-> <<>>]
    ELSE
        LET prio == IF priority \notin Priorities THEN Medium ELSE priority
            tasks == _load_tasks(fs, path)
            task_id == _get_next_id(tasks)
            new_task == [id |-> task_id,
                         title |-> Strip(title),
                         description |-> Strip(description),
                         priority |-> prio,
                         due_date |-> Strip(due_date),
                         status |-> "Pending",
                         created_at |-> t,
                         completed_at |-> None]
        IN  [ok |-> TRUE, msg |-> "Task '{title}' added successfully!",
             id |-> Some(task_id), save |-> TRUE,
             tasks |-> Append(tasks, new_task)]

add_task_KeepsPriority(fs, path, title, description, priority, due_date, t) ==
    IF title = <<>> \/ Strip(title) = <<>> THEN
        [ok |-> FALSE, msg |-> "Task title cannot be empty", id |-> None,
         save |-> FALSE, tasks |-> <<>>]
    ELSE
        LET tasks == _load_tasks(fs, path)
            task_id == _get_next_id(tasks)
            new_task == [id |-> task_id,
                         title |-> Strip(title),
                         description |-> Strip(description),
                         priority |-> priority,
                         due_date |-> Strip(due_date),
                         status |-> "Pending",
                         created_at |-> t,
                         completed_at |-> None]
        IN  [ok |-> TRUE, msg |-> "Task '{title}' added successfully!",
             id |-> Some(task_id), save |-> TRUE,
             tasks |-> Append(tasks, new_task)]

\* Mutant of add_task: the new task is put in front of the list
add_task_Prepends(fs, path, title, description, priority, due_date, t) ==
    IF title = <<>> \/ Strip(title) = <<>> THEN
        [ok |-> FALSE, msg |-> "Task title cannot be empty", id |-> None,
         save |-> FALSE, tasks |-> <<>>]
    ELSE
        LET prio == IF priority \notin Priorities THEN Medium ELSE priority
            tasks == _load_tasks(fs, path)
            task_id == _get_next_id(tasks)
            new_task == [id |-> task_id,
                         title |-> Strip(title),
                         description |-> Strip(description),
                         priority |-> prio,
                         due_date |-> Strip(due_date),
                         status |-> "Pending",
                         created_at |-> t,
                         completed_at |-> None]
        IN  [ok |-> TRUE, msg |-> "Task '{title}' added successfully!",
             id |-> Some(task_id), save |-> TRUE,
             tasks |-> <<new_task>> \o tasks]

\* add_task's return value and the list it saves (save = FALSE: no write)
add_task(fs, path, title, description, priority, due_date, t) ==
    IF title = <<>> \/ Strip(title) = <<>> THEN
        [ok |-> FALSE, msg |-> "Task title cannot be empty", id |-> None,
         save |-> FALSE, tasks |-> <<>>]
    ELSE
        LET prio == IF priority \notin Priorities THEN Medium ELSE priority
            tasks == _load_tasks(fs, path)
            task_id == _get_next_id(tasks)
            new_task == [id |-> task_id,
                         title |-> Strip(title),
                         description |-> Strip(description),
                         priority |-> prio,
                         due_date |-> Strip(due_date),
                         status |-> "Pending",
                         created_at |-> t,
                         completed_at |-> None]
        IN  [ok |-> TRUE, msg |-> "Task '{title}' added successfully!",
             id |-> Some(task_id), save |-> TRUE,
             tasks |-> Append(tasks, new_task)]

\* Mutants of UpdateFields: the task rebuilt with the status of a new task;
\* a title that is not supplied replaced by the empty default
UpdateFields_ResetsStatus(task, kwargs) ==
    [task EXCEPT !.status = "Pending",
                 !.priority = IF "priority" \in DOMAIN kwargs
                                 /\ kwargs["priority"] \in Priorities
                              THEN kwargs["priority"] ELSE @]

UpdateFields_TitleDefault(task, kwargs) ==
    [task EXCEPT !.title = IF "title" \in DOMAIN kwargs
                           THEN Strip(kwargs["title"]) ELSE <<>>]

\* Mutant of UpdateFields: an empty description or due date is not applied
UpdateFields_SkipsEmpty(task, kwargs) ==
    LET t1 == IF "title" \in DOMAIN kwargs /\ Strip(kwargs["title"]) # <<>>
              THEN [task EXCEPT !.title = Strip(kwargs["title"])] ELSE task
        t2 == IF "description" \in DOMAIN kwargs /\ Strip(kwargs["description"]) # <<>>
              THEN [t1 EXCEPT !.description = Strip(kwargs["description"])] ELSE t1
        t3 == IF "priority" \in DOMAIN kwargs /\ kwargs["priority"] \in Priorities
              THEN [t2 EXCEPT !.priority = kwargs["priority"]] ELSE t2
        t4 == IF "due_date" \in DOMAIN kwargs /\ Strip(kwargs["due_date"]) # <<>>
              THEN [t3 EXCEPT !.due_date = Strip(kwargs["due_date"])] ELSE t3
    IN  t4

\* The body of update_task's loop for the task found
UpdateFields(task, kwargs) ==
    LET t1 == IF "title" \in DOMAIN kwargs /\ Strip(kwargs["title"]) # <<>>
              THEN [task EXCEPT !.title = Strip(kwargs["title"])] ELSE task
        t2 == IF "description" \in DOMAIN kwargs
              THEN [t1 EXCEPT !.description = Strip(kwargs["description"])] ELSE t1
        t3 == IF "priority" \in DOMAIN kwargs /\ kwargs["priority"] \in Priorities
              THEN [t2 EXCEPT !.priority = kwargs["priority"]] ELSE t2
        t4 == IF "due_date" \in DOMAIN kwargs
              THEN [t3 EXCEPT !.due_date = Strip(kwargs["due_date"])] ELSE t3
    IN  t4

update_task(fs, path, task_id, kwargs) ==
    LET tasks == _load_tasks(fs, path)
        i == FirstWithId(tasks, task_id)
    IN  IF i = 0 THEN
            [ok |-> FALSE, msg |-> "Task with ID {task_id} not found",
             save |-> FALSE, tasks |-> tasks]
        ELSE
            [ok |-> TRUE, msg |-> "Task {task_id} updated successfully!",
             save |-> TRUE,
             tasks |-> [tasks EXCEPT ![i] = UpdateFields(tasks[i], kwargs)]]

\* Mutant of mark_complete: the completion time is written to created_at too
mark_complete_StampsCreated(fs, path, task_id, t) ==
    LET tasks == _load_tasks(fs, path)
        i == FirstWithId(tasks, task_id)
    IN  IF i = 0 THEN
            [ok |-> FALSE, msg |-> "Task with ID {task_id} not found",
             save |-> FALSE, tasks |-> tasks]
        ELSE IF tasks[i].status = "Completed" THEN
            [ok |-> FALSE, msg |-> "Task {task_id} is already completed",
             save |-> FALSE, tasks |-> tasks]
        ELSE
            [ok |-> TRUE, msg |-> "Task {task_id} marked as completed!",
             save |-> TRUE,
             tasks |-> [tasks EXCEPT ![i].status = "Completed",
                                     ![i].created_at = t,
                                     ![i].completed_at = Some(t)]]

\* Mutant of mark_complete: a task that is Completed is completed again
mark_complete_Restamps(fs, path, task_id, t) ==
    LET tasks == _load_tasks(fs, path)
        i == FirstWithId(tasks, task_id)
    IN  IF i = 0 THEN
            [ok |-> FALSE, msg |-> "Task with ID {task_id} not found",
             save |-> FALSE, tasks |-> tasks]
        ELSE
            [ok |-> TRUE, msg |-> "Task {task_id} marked as completed!",
             save |-> TRUE,
             tasks |-> [tasks EXCEPT ![i].status = "Completed",
                                     ![i].completed_at = Some(t)]]

mark_complete(fs, path, task_id, t) ==
    LET tasks == _load_tasks(fs, path)
        i == FirstWithId(tasks, task_id)
    IN  IF i = 0 THEN
            [ok |-> FALSE, msg |-> "Task with ID {task_id} not found",
             save |-> FALSE, tasks |-> tasks]
        ELSE IF tasks[i].status = "Completed" THEN
            [ok |-> FALSE, msg |-> "Task {task_id} is already completed",
             save |-> FALSE, tasks |-> tasks]
        ELSE
            [ok |-> TRUE, msg |-> "Task {task_id} marked as completed!",
             save |-> TRUE,
             tasks |-> [tasks EXCEPT ![i].status = "Completed",
                                     ![i].completed_at = Some(t)]]

\* Mutant of mark_pending: completed_at is left as it was
mark_pending_KeepsStamp(fs, path, task_id) ==
    LET tasks == _load_tasks(fs, path)
        i == FirstWithId(tasks, task_id)
    IN  IF i = 0 THEN
            [ok |-> FALSE, msg |-> "Task with ID {task_id} not found",
             save |-> FALSE, tasks |-> tasks]
        ELSE IF tasks[i].status = "Pending" THEN
            [ok |-> FALSE, msg |-> "Task {task_id} is already pending",
             save |-> FALSE, tasks |-> tasks]
        ELSE
            [ok |-> TRUE, msg |-> "Task {task_id} marked as pending!",
             save |-> TRUE,
             tasks |-> [tasks EXCEPT ![i].status = "Pending"]]

mark_pending(fs, path, task_id) ==
    LET tasks == _load_tasks(fs, path)
        i == FirstWithId(tasks, task_id)
    IN  IF i = 0 THEN
            [ok |-> FALSE, msg |-> "Task with ID {task_id} not found",
             save |-> FALSE, tasks |-> tasks]
        ELSE IF tasks[i].status = "Pending" THEN
            [ok |-> FALSE, msg |-> "Task {task_id} is already pending",
             save |-> FALSE, tasks |-> tasks]
        ELSE
            [ok |-> TRUE, msg |-> "Task {task_id} marked as pending!",
             save |-> TRUE,
             tasks |-> [tasks EXCEPT ![i].status = "Pending",
                                     ![i].completed_at = None]]

\* Mutant of delete_task: success also when no task has the id
delete_task_AlwaysSucceeds(fs, path, task_id) ==
    LET tasks == _load_tasks(fs, path)
        kept == SelectSeq(tasks, LAMBDA task : task.id # task_id)
    IN  [ok |-> TRUE, msg |-> "Task {task_id} deleted successfully!",
         save |-> TRUE, tasks |-> kept]

\* Mutant of delete_task: the first task of the list is the one removed
delete_task_DropsFirst(fs, path, task_id) ==
    LET tasks == _load_tasks(fs, path)
    IN  IF FirstWithId(tasks, task_id) = 0 THEN
            [ok |-> FALSE, msg |-> "Task with ID {task_id} not found",
             save |-> FALSE, tasks |-> tasks]
        ELSE
            [ok |-> TRUE, msg |-> "Task {task_id} deleted successfully!",
             save |-> TRUE, tasks |-> Tail(tasks)]

delete_task(fs, path, task_id) ==
    LET tasks == _load_tasks(fs, path)
        kept == SelectSeq(tasks, LAMBDA task : task.id # task_id)
    IN  IF Len(kept) = Len(tasks) THEN
            [ok |-> FALSE, msg |-> "Task with ID {task_id} not found",
             save |-> FALSE, tasks |-> tasks]
        ELSE
            [ok |-> TRUE, msg |-> "Task {task_id} deleted successfully!",
             save |-> TRUE, tasks |-> kept]

----------------------------------------------------------------------------
(* Inputs *)

Usernames ==
    {<<>>, <<"a", "b">>, <<"a", "b", "c">>, <<"A", "_", "1">>,
     <<"_", "_", "_">>, <<"a", "-", "c">>}

Passwords ==
    {<<>>, <<"p", "p", "p", "p", "p">>, <<"p", "p", "p", "p", "p", "p">>,
     <<"q", "p", "p", "p", "p", "p", "p">>}

\* The users of the task store
Alice == <<"a", "b", "c">>
Bob == <<"A", "_", "1">>
TaskUsers == {Alice, Bob}

Titles == {<<>>, <<" ">>, <<"a">>, <<" ", "b", " ">>}
Descriptions == {<<>>, <<"d", " ">>}
PriorityInputs == {<<>>, High, <<"U", "r", "g", "e", "n", "t">>}
DueDates == {<<>>, <<"x">>}
TaskIds == 1..MaxAdds

\* **kwargs of update_task: the four fields and an unrecognized key, each
\* with a value of its kind, for the given sets of keys
UpdateKeys == {"title", "description", "priority", "due_date", "color"}

KwargsOver(titles, descriptions, priorities, due_dates, keysets) ==
    {[k \in K |-> r[k]] :
        r \in [title : titles, description : descriptions, priority : priorities,
               due_date : due_dates, color : {<<"r">>}],
        K \in keysets}

----------------------------------------------------------------------------
(* Operations *)

\* datetime.now() advances between calls
Tick ==
    /\ now < MaxTime
    /\ now' = now + 1
    /\ UNCHANGED <<users_file, files, managers, ret, issued, registered,
                 current_user, task_manager, menu, inflight>>

Register(username, password) ==
    LET out == register(users_file, username, password, _get_timestamp) IN
    /\ users_file' = IF out.save THEN _save_users(out.users) ELSE users_file
    /\ registered' = IF out.ok THEN DictSet(registered, username, password)
                     ELSE registered
    /\ ret' = Result("register", username, password, 0, {}, out.ok, out.msg, None)
    /\ UNCHANGED <<files, managers, now, issued,
                 current_user, task_manager, menu, inflight>>

Login(username, password) ==
    LET out == login(users_file, username, password) IN
    /\ ret' = Result("login", username, password, 0, {}, out.ok, out.msg, None)
    /\ UNCHANGED <<users_file, files, managers, now, issued, registered,
                 current_user, task_manager, menu, inflight>>

\* TaskManager(username)
NewTaskManager(username) ==
    /\ managers' = managers \cup {username}
    /\ files' = _ensure_tasks_file(files, tasks_file(username))
    /\ ret' = Result("__init__", username, <<>>, 0, {}, TRUE, "", None)
    /\ UNCHANGED <<users_file, now, issued, registered,
                 current_user, task_manager, menu, inflight>>

\* The successful add_task calls made so far, over all users
RECURSIVE SumLen(_, _)
SumLen(f, S) ==
    IF S = {} THEN 0
    ELSE LET u == CHOOSE x \in S : TRUE IN Len(f[u]) + SumLen(f, S \ {u})

AddsMade == SumLen(issued, DOMAIN issued)

AddTask(username, title, description, priority, due_date) ==
    LET path == tasks_file(username)
        out == add_task(files, path, title, description, priority, due_date,
                        _get_timestamp)
    IN  /\ username \in managers
        /\ out.ok => AddsMade < MaxAdds
        /\ files' = IF out.save THEN _save_tasks(files, path, out.tasks) ELSE files
        /\ issued' = IF out.ok
                     THEN [issued EXCEPT ![username] = Append(@, out.id[1])]
                     ELSE issued
        /\ ret' = Result("add_task", username, <<>>, 0, {}, out.ok, out.msg, out.id)
        /\ UNCHANGED <<users_file, managers, now, registered,
                     current_user, task_manager, menu, inflight>>

UpdateTask(username, task_id, kwargs) ==
    LET path == tasks_file(username)
        out == update_task(files, path, task_id, kwargs)
    IN  /\ username \in managers
        /\ files' = IF out.save THEN _save_tasks(files, path, out.tasks) ELSE files
        /\ ret' = Result("update_task", username, <<>>, task_id, DOMAIN kwargs,
                      out.ok, out.msg, None)
        /\ UNCHANGED <<users_file, managers, now, issued, registered,
                     current_user, task_manager, menu, inflight>>

MarkComplete(username, task_id) ==
    LET path == tasks_file(username)
        out == mark_complete(files, path, task_id, _get_timestamp)
    IN  /\ username \in managers
        /\ files' = IF out.save THEN _save_tasks(files, path, out.tasks) ELSE files
        /\ ret' = Result("mark_complete", username, <<>>, task_id, {}, out.ok, out.msg, None)
        /\ UNCHANGED <<users_file, managers, now, issued, registered,
                     current_user, task_manager, menu, inflight>>

MarkPending(username, task_id) ==
    LET path == tasks_file(username)
        out == mark_pending(files, path, task_id)
    IN  /\ username \in managers
        /\ files' = IF out.save THEN _save_tasks(files, path, out.tasks) ELSE files
        /\ ret' = Result("mark_pending", username, <<>>, task_id, {}, out.ok, out.msg, None)
        /\ UNCHANGED <<users_file, managers, now, issued, registered,
                     current_user, task_manager, menu, inflight>>

DeleteTask(username, task_id) ==
    LET path == tasks_file(username)
        out == delete_task(files, path, task_id)
    IN  /\ username \in managers
        /\ files' = IF out.save THEN _save_tasks(files, path, out.tasks) ELSE files
        /\ ret' = Result("delete_task", username, <<>>, task_id, {}, out.ok, out.msg, None)
        /\ UNCHANGED <<users_file, managers, now, issued, registered,
                     current_user, task_manager, menu, inflight>>

----------------------------------------------------------------------------
(* Specifications *)

NoCall == Result("", <<>>, <<>>, 0, {}, TRUE, "", None)

\* Two TaskManager instances of one user, and an instance that is in no call
Instances == {1, 2}

NoAdd == [pc |-> "idle", tasks |-> <<>>, task_id |-> 0, title |-> <<>>]

\* The state after UserAuth() on a fresh data directory, before any
\* TaskManager exists.
Init ==
    /\ users_file = _ensure_users_file(MissingFile)
    /\ files = <<>>
    /\ managers = {}
    /\ now = 0
    /\ ret = NoCall
    /\ issued = [u \in TaskUsers |-> <<>>]
    /\ registered = <<>>
    /\ current_user = None
    /\ task_manager = None
    /\ menu = "main"
    /\ inflight = [i \in Instances |-> NoAdd]

\* The operations of one user's task store, with their arguments drawn from
\* the given sets
TaskOps(username, titles, descriptions, priorities, due_dates, updates) ==
    \/ NewTaskManager(username)
    \/ \E title \in titles, description \in descriptions,
          priority \in priorities, due_date \in due_dates :
            AddTask(username, title, description, priority, due_date)
    \/ \E task_id \in TaskIds, kwargs \in updates :
            UpdateTask(username, task_id, kwargs)
    \/ \E task_id \in TaskIds : MarkComplete(username, task_id)
    \/ \E task_id \in TaskIds : MarkPending(username, task_id)
    \/ \E task_id \in TaskIds : DeleteTask(username, task_id)

\* One session on one user's task store, starting from no collection
NextTasks ==
    \/ Tick
    \/ TaskOps(Alice, Titles \ {<<"a">>}, {<<>>}, {<<>>, High}, {<<>>},
               KwargsOver(Titles \ {<<>>, <<"a">>}, {<<>>},
                          PriorityInputs \ {<<>>}, {<<>>},
                          {{}, {"color"}, {"title"}, {"priority"}}))

SpecTasks == Init /\ [][NextTasks]_vars

\* The task stores of two users side by side, each user with titles of their
\* own, and MaxAdds successful add calls between them
IsoTitles(username) ==
    IF username = Alice THEN {<<>>, <<"a">>} ELSE {<<" ">>, <<" ", "b", " ">>}

NextIso ==
    \/ Tick
    \/ \E username \in TaskUsers :
          TaskOps(username, IsoTitles(username), {<<>>}, {High}, {<<>>},
                  {[k \in {"title"} |-> t] : t \in IsoTitles(username)})

SpecIso == Init /\ [][NextIso]_vars

\* One user's tasks, created with every field filled, and updates of several
\* fields at once: a padded title with an invalid priority, a blank title
\* with an empty description, an empty due date with a valid priority, a
\* padded description
Urgent == <<"U", "r", "g", "e", "n", "t">>

FieldUpdates ==
    {[title |-> <<" ", "b", " ">>, priority |-> Urgent],
     [title |-> <<" ">>, description |-> <<>>],
     [due_date |-> <<>>, priority |-> Low],
     [description |-> <<" ", "d">>]}

NextFields ==
    \/ NewTaskManager(Alice)
    \/ AddTask(Alice, <<"a">>, <<"d", " ">>, High, <<"x">>)
    \/ \E task_id \in TaskIds, kwargs \in FieldUpdates :
            UpdateTask(Alice, task_id, kwargs)
    \/ \E task_id \in TaskIds : MarkComplete(Alice, task_id)

SpecFields == Init /\ [][NextFields]_vars

\* Faults of the storage between two calls: a file is removed, or its text
\* is damaged so that json.load raises JSONDecodeError on it
LoseUsersFile ==
    /\ users_file.exists
    /\ users_file' = MissingFile
    /\ ret' = NoCall
    /\ UNCHANGED <<files, managers, now, issued, registered,
                 current_user, task_manager, menu, inflight>>

CorruptUsersFile ==
    /\ users_file.exists /\ users_file.valid
    /\ users_file' = [users_file EXCEPT !.valid = FALSE]
    /\ ret' = NoCall
    /\ UNCHANGED <<files, managers, now, issued, registered,
                 current_user, task_manager, menu, inflight>>

LoseTasksFile(username) ==
    LET path == tasks_file(username)
    IN  /\ path \in DOMAIN files
        /\ files' = [p \in DOMAIN files \ {path} |-> files[p]]
        /\ ret' = NoCall
        /\ UNCHANGED <<users_file, managers, now, issued, registered,
                     current_user, task_manager, menu, inflight>>

CorruptTasksFile(username) ==
    LET path == tasks_file(username)
    IN  /\ path \in DOMAIN files /\ files[path].valid
        /\ files' = [files EXCEPT ![path].valid = FALSE]
        /\ ret' = NoCall
        /\ UNCHANGED <<users_file, managers, now, issued, registered,
                     current_user, task_manager, menu, inflight>>

\* Both stores with a storage that can fail: one task user, two usernames
FaultPasswords == {<<"p", "p", "p", "p", "p">>, <<"p", "p", "p", "p", "p", "p">>}

NextFaults ==
    \/ \E username \in TaskUsers, password \in FaultPasswords :
            Register(username, password)
    \/ \E username \in TaskUsers, password \in FaultPasswords :
            Login(username, password)
    \/ LoseUsersFile
    \/ CorruptUsersFile
    \/ NewTaskManager(Alice)
    \/ \E title \in {<<" ">>, <<"a">>} : AddTask(Alice, title, <<>>, <<>>, <<>>)
    \/ \E task_id \in TaskIds : MarkComplete(Alice, task_id)
    \/ LoseTasksFile(Alice)
    \/ CorruptTasksFile(Alice)

SpecFaults == Init /\ [][NextFaults]_vars

\* The credential store
NextAuth ==
    \/ Tick
    \/ \E username \in Usernames, password \in Passwords :
            Register(username, password)
    \/ \E username \in Usernames, password \in Passwords :
            Login(username, password)

SpecAuth == Init /\ [][NextAuth]_vars

----------------------------------------------------------------------------
(* Properties of the task store, checked under SpecTasks *)

\* view_all_tasks: the collection of a user as the store reads it
view_all_tasks(username) == _load_tasks(files, tasks_file(username))

IdsOf(tasks) == {tasks[i].id : i \in 1..Len(tasks)}

RecognizedKeys == {"title", "description", "priority", "due_date"}

UpdatedMsg == "Task {task_id} updated successfully!"
NotFoundMsg == "Task with ID {task_id} not found"

\* C1, as the specification states it: the ids returned by the successful
\* add calls of a session are strictly increasing, so none is returned twice,
\* also when tasks were deleted in between.
C1_IdsNeverReused ==
    \A u \in TaskUsers :
        \A i \in 1..Len(issued[u]), j \in 1..Len(issued[u]) :
            i < j => issued[u][i] < issued[u][j]

\* C1, amended: the id a successful add call returns is greater than every
\* id in the collection when the call is made; it is an id returned before
\* only when no task with that id or a greater one is left.
C1_IdsAboveCollection ==
    [][\A u \in TaskUsers :
          issued'[u] # issued[u] =>
              LET id == issued'[u][Len(issued'[u])]
              IN  /\ \A old \in IdsOf(view_all_tasks(u)) : old < id
                  /\ id = 1 \/ id - 1 \in IdsOf(view_all_tasks(u))
                  /\ ret'.id = Some(id)]_vars

\* A second add call returned an id that an earlier one had returned.
C1_Witness ==
    /\ ret.op = "add_task" /\ ret.ok
    /\ Len(issued[Alice]) = 2
    /\ issued[Alice][2] = issued[Alice][1]

\* C2: in every state no two task records of a collection have the same id.
C2_UniqueIds ==
    \A u \in TaskUsers :
        LET tasks == view_all_tasks(u)
        IN  \A i \in 1..Len(tasks), j \in 1..Len(tasks) :
                tasks[i].id = tasks[j].id => i = j

\* A second task was added to the collection.
C2_Witness ==
    /\ ret.op = "add_task" /\ ret.ok
    /\ Len(view_all_tasks(Alice)) = 2
    /\ issued[Alice] = <<1, 2>>

\* C3: in every state a task's completed_at is null exactly when its status
\* is Pending and is a timestamp exactly when its status is Completed.
C3_CompletedAtIffCompleted ==
    \A u \in TaskUsers :
        LET tasks == view_all_tasks(u)
        IN  \A i \in 1..Len(tasks) :
                /\ tasks[i].completed_at = None <=> tasks[i].status = "Pending"
                /\ tasks[i].completed_at # None <=> tasks[i].status = "Completed"

\* mark_pending has just put a task back to Pending while another task is
\* Completed.
C3_Witness ==
    /\ ret.op = "mark_pending" /\ ret.ok
    /\ \E i \in 1..Len(view_all_tasks(Alice)) :
            /\ view_all_tasks(Alice)[i].id = ret.task_id
            /\ view_all_tasks(Alice)[i].status = "Pending"
    /\ \E i \in 1..Len(view_all_tasks(Alice)) :
            /\ view_all_tasks(Alice)[i].status = "Completed"
            /\ view_all_tasks(Alice)[i].completed_at # None

\* C4: a task's status is Pending or Completed, is Pending when the task is
\* created, and changes only by a successful mark_complete (Pending to
\* Completed) or mark_pending (Completed to Pending) called with that task's
\* id; no other call changes the status of a task that stays.
C4_StatusOnlyByMark ==
    [][\A u \in TaskUsers :
          LET old == view_all_tasks(u)
              new == view_all_tasks(u)'
          IN  \A j \in 1..Len(new) :
                /\ new[j].status \in {"Pending", "Completed"}
                /\ new[j].id \notin IdsOf(old) => new[j].status = "Pending"
                /\ \A i \in 1..Len(old) :
                      (old[i].id = new[j].id /\ old[i].status # new[j].status) =>
                          /\ ret'.ok /\ ret'.user = u /\ ret'.task_id = new[j].id
                          /\ \/ /\ ret'.op = "mark_complete"
                                /\ old[i].status = "Pending"
                                /\ new[j].status = "Completed"
                             \/ /\ ret'.op = "mark_pending"
                                /\ old[i].status = "Completed"
                                /\ new[j].status = "Pending"]_vars

\* update_task has succeeded on a Completed task next to a Pending one.
C4_Witness ==
    /\ ret.op = "update_task" /\ ret.ok /\ "title" \in ret.keys
    /\ \E i \in 1..Len(view_all_tasks(Alice)) :
            /\ view_all_tasks(Alice)[i].id = ret.task_id
            /\ view_all_tasks(Alice)[i].status = "Completed"
    /\ \E i \in 1..Len(view_all_tasks(Alice)) :
            view_all_tasks(Alice)[i].status = "Pending"

\* C5, as the specification states it: update_task on an existing id with no
\* recognized field returns something else than a successful update does.
C5_NoChangesOutcome ==
    (/\ ret.op = "update_task"
     /\ ret.keys \cap RecognizedKeys = {}
     /\ ret.msg # NotFoundMsg)
        => ~(ret.ok /\ ret.msg = UpdatedMsg)

\* C5, amended: update_task on an existing id with no recognized field
\* returns what a successful update returns, (True, "Task N updated
\* successfully!"), and leaves every task of the collection as it was.
C5_NoFieldsIsSuccess ==
    [][\A u \in TaskUsers :
          (/\ ret'.op = "update_task" /\ ret'.user = u
           /\ ret'.keys \cap RecognizedKeys = {}
           /\ ret'.task_id \in IdsOf(view_all_tasks(u)))
              => /\ ret'.ok /\ ret'.msg = UpdatedMsg
                 /\ view_all_tasks(u)' = view_all_tasks(u)]_vars

\* update_task was called with only an unrecognized key on a task that exists.
C5_Witness ==
    /\ ret.op = "update_task" /\ ret.keys = {"color"}
    /\ ret.task_id \in IdsOf(view_all_tasks(Alice))
    /\ ret.ok /\ ret.msg = UpdatedMsg

----------------------------------------------------------------------------
(* Properties of the credential store, checked under SpecAuth *)

EmptyMsg == "Username and password cannot be empty"
ShortUsernameMsg == "Username must be at least 3 characters long"
ShortPasswordMsg == "Password must be at least 6 characters long"
BadUsernameMsg == "Username can only contain letters, numbers, and underscores"
DuplicateMsg == "Username already exists"
InvalidLoginMsg == "Invalid username or password"

ValidationMsgs == {EmptyMsg, ShortUsernameMsg, ShortPasswordMsg, BadUsernameMsg}

\* The users of the store as the store reads them
Users == _load_users(users_file)

\* The inputs the specification says register rejects
RejectedBySpec(username, password) ==
    \/ username = <<>> \/ password = <<>>
    \/ Len(username) < 3
    \/ Len(password) < 6
    \/ \E i \in 1..Len(username) : username[i] \notin Letters \cup Digits \cup {"_"}

\* C6: register with a username that is not in the store fails with a
\* validation error exactly when the username or the password is empty, the
\* username has fewer than 3 characters, the password fewer than 6, or the
\* username has a character that is no letter, digit or underscore; every
\* other input, a username of three underscores included, is accepted and
\* registered.
C6_RegisterValidation ==
    [][(ret'.op = "register" /\ ret'.user \notin DOMAIN Users) =>
          /\ (~ret'.ok /\ ret'.msg \in ValidationMsgs)
                <=> RejectedBySpec(ret'.user, ret'.password)
          /\ ~RejectedBySpec(ret'.user, ret'.password)
                => (ret'.ok /\ ret'.user \in DOMAIN Users')]_vars

\* C7, as the specification states it: a register call for a username that
\* was registered before fails with the duplicate-user error, whatever the
\* password.
C7_AlwaysDuplicateError ==
    (ret.op = "register" /\ ~ret.ok /\ ret.user \in DOMAIN registered)
        => ret.msg = DuplicateMsg

\* C7, amended: after a successful register(u, p) every later register(u, p')
\* fails and writes nothing: with the duplicate-user error when p' has at
\* least 6 characters, with the validation error of an empty or too short
\* password otherwise.  The record of u stays: login(u, p) succeeds and
\* login(u, p') fails for every other p'.
C7_DuplicateRejected ==
    /\ \A u \in DOMAIN registered :
          /\ u \in DOMAIN Users
          /\ Users[u].password = _hash_password(registered[u])
          /\ \A p \in Passwords :
                LET out == register(users_file, u, p, _get_timestamp)
                IN  /\ ~out.ok /\ ~out.save
                    /\ out.msg = IF p = <<>> THEN EmptyMsg
                                 ELSE IF Len(p) < 6 THEN ShortPasswordMsg
                                 ELSE DuplicateMsg
          /\ login(users_file, u, registered[u]).ok
          /\ \A p \in Passwords \ {registered[u]} : ~login(users_file, u, p).ok
    /\ (ret.op = "register" /\ ~ret.ok /\ ret.user \in DOMAIN registered) =>
          ret.msg = IF ret.password = <<>> THEN EmptyMsg
                    ELSE IF Len(ret.password) < 6 THEN ShortPasswordMsg
                    ELSE DuplicateMsg

\* A registered username was registered again with another valid password and
\* got the duplicate-user error.
C7_Witness ==
    /\ ret.op = "register" /\ ~ret.ok /\ ret.msg = DuplicateMsg
    /\ ret.user \in DOMAIN registered
    /\ ret.password # registered[ret.user]

\* C8: once register(u, p) has succeeded, login(u, p) succeeds in every later
\* state, whatever register and login calls were made in between.
C8_LoginAfterRegister ==
    /\ \A u \in DOMAIN registered :
          login(users_file, u, registered[u]) = [ok |-> TRUE, msg |-> "Login successful!"]
    /\ (/\ ret.op = "login" /\ ret.user \in DOMAIN registered
        /\ ret.password = registered[ret.user]) => ret.ok

\* A user logs in with the registered password after a second user was
\* registered.
C8_Witness ==
    /\ ret.op = "login" /\ ret.ok
    /\ ret.user \in DOMAIN registered
    /\ ret.password = registered[ret.user]
    /\ Cardinality(DOMAIN registered) = 2

DictRemove(d, k) == [x \in DOMAIN d \ {k} |-> d[x]]

\* C9: a failed login returns the same result and message whether or not the
\* username is registered.  For every username u and password p, the store
\* of the state with u removed and the same store with u registered under a
\* password other than p return the same failure; and a failed login that was
\* made returned the one message (the empty-input message when an input was
\* empty), whether its username was registered or not.
C9_FailedLoginHidesUsername ==
    /\ \A u \in Usernames, p \in Passwords, q \in Passwords :
          (q # <<>> /\ _hash_password(q) # _hash_password(p)) =>
              LET without == JsonFile(DictRemove(Users, u))
                  with == JsonFile(DictSet(Users, u,
                                [password |-> _hash_password(q),
                                 created_at |-> _get_timestamp]))
              IN  /\ ~login(with, u, p).ok
                  /\ login(with, u, p) = login(without, u, p)
    /\ (ret.op = "login" /\ ~ret.ok) =>
          ret.msg = IF ret.user = <<>> \/ ret.password = <<>> THEN EmptyMsg
                    ELSE InvalidLoginMsg

\* A login with a wrong password for a registered username has failed.
C9_Witness ==
    /\ ret.op = "login" /\ ~ret.ok /\ ret.msg = InvalidLoginMsg
    /\ ret.user \in DOMAIN registered
    /\ ret.password # registered[ret.user]

----------------------------------------------------------------------------
(* Isolation of the users' collections, checked under SpecIso *)

\* The file of a user's collection as it is on disk
TaskFile(username) ==
    IF tasks_file(username) \in DOMAIN files
    THEN files[tasks_file(username)]
    ELSE MissingFile

\* C10: the collections are partitioned by username.  A call on the store of
\* one user, its construction included, changes the file of no other user;
\* and what a store reads never holds a task added through another user's
\* store (every task read has a title of its own user).
C10_Partitioned ==
    [][\A u \in TaskUsers :
          /\ TaskFile(u)' # TaskFile(u) => ret'.user = u
          /\ \A i \in 1..Len(view_all_tasks(u)') :
                view_all_tasks(u)'[i].title \in {Strip(t) : t \in IsoTitles(u)}]_vars

\* A delete on Alice's store has emptied her collection while Bob's holds a
\* task.
C10_Witness ==
    /\ ret.user = Alice /\ ret.op = "delete_task" /\ ret.ok
    /\ view_all_tasks(Alice) = <<>>
    /\ Len(view_all_tasks(Bob)) = 1

----------------------------------------------------------------------------
(* Status transitions and failures of the task store, checked under SpecTasks *)

CompletedMsg == "Task {task_id} marked as completed!"
PendingMsg == "Task {task_id} marked as pending!"
AlreadyCompletedMsg == "Task {task_id} is already completed"
AlreadyPendingMsg == "Task {task_id} is already pending"

\* C11: for a task that is Pending, mark_complete followed by mark_pending on
\* its id both succeed and give back the collection as it was before the
\* pair: the task is Pending with completed_at null, its other fields and
\* every other task are as before.  A mark_pending call made right after a
\* successful mark_complete of the same id succeeds and leaves the task
\* Pending with completed_at null.
C11_CompleteThenPending ==
    [][\A u \in TaskUsers :
          LET old == view_all_tasks(u)
              new == view_all_tasks(u)'
              i == FirstWithId(old, ret'.task_id)
          IN  /\ (/\ ret'.op = "mark_complete" /\ ret'.user = u
                  /\ i # 0 /\ old[i].status = "Pending") =>
                    LET back == mark_pending(files', tasks_file(u), ret'.task_id)
                    IN  /\ ret'.ok /\ ret'.msg = CompletedMsg
                        /\ back.ok /\ back.msg = PendingMsg
                        /\ back.tasks = old
                        /\ back.tasks[i].status = "Pending"
                        /\ back.tasks[i].completed_at = None
              /\ (/\ ret.op = "mark_complete" /\ ret.ok /\ ret.user = u
                  /\ ret'.op = "mark_pending" /\ ret'.user = u
                  /\ ret'.task_id = ret.task_id) =>
                    /\ ret'.ok /\ ret'.msg = PendingMsg
                    /\ Len(new) = Len(old)
                    /\ \A j \in 1..Len(old) :
                          new[j] = IF j = i
                                   THEN [old[j] EXCEPT !.status = "Pending",
                                                       !.completed_at = None]
                                   ELSE old[j]]_vars

\* mark_pending has succeeded on a task created before the clock advanced,
\* next to a task that is Completed.
C11_Witness ==
    /\ ret.op = "mark_pending" /\ ret.ok /\ now = 1
    /\ Len(view_all_tasks(Alice)) = 2
    /\ \E i, j \in 1..2 :
          /\ view_all_tasks(Alice)[i].id = ret.task_id
          /\ view_all_tasks(Alice)[i].status = "Pending"
          /\ view_all_tasks(Alice)[i].completed_at = None
          /\ view_all_tasks(Alice)[i].created_at = 0
          /\ view_all_tasks(Alice)[j].status = "Completed"

\* C12: a redundant status transition is a rejected no-op.  A mark_complete
\* call on a task that is Completed and a mark_pending call on a task that is
\* Pending return the already-in-state failure and leave the file of the
\* collection as it was, the task's completed_at included.
C12_RedundantTransitionRejected ==
    [][\A u \in TaskUsers :
          LET old == view_all_tasks(u)
              i == FirstWithId(old, ret'.task_id)
          IN  (now' = now /\ ret'.user = u /\ i # 0) =>
                /\ (ret'.op = "mark_complete" /\ old[i].status = "Completed") =>
                      /\ ~ret'.ok /\ ret'.msg = AlreadyCompletedMsg
                      /\ TaskFile(u)' = TaskFile(u)
                      /\ view_all_tasks(u)'[i].completed_at = old[i].completed_at
                /\ (ret'.op = "mark_pending" /\ old[i].status = "Pending") =>
                      /\ ~ret'.ok /\ ret'.msg = AlreadyPendingMsg
                      /\ TaskFile(u)' = TaskFile(u)
                      /\ view_all_tasks(u)'[i].completed_at = None]_vars

\* mark_complete was refused, at a later time, on a task completed before;
\* the other task of the collection is Pending.
C12_Witness ==
    /\ ret.op = "mark_complete" /\ ~ret.ok /\ ret.msg = AlreadyCompletedMsg
    /\ now = 1
    /\ Len(view_all_tasks(Alice)) = 2
    /\ \E i, j \in 1..2 :
          /\ view_all_tasks(Alice)[i].id = ret.task_id
          /\ view_all_tasks(Alice)[i].status = "Completed"
          /\ view_all_tasks(Alice)[i].completed_at = Some(0)
          /\ view_all_tasks(Alice)[j].status = "Pending"

\* C13: update_task, mark_complete, mark_pending and delete_task called with
\* an id that no task of the collection has each return the not-found failure
\* and leave the file of the collection as it was.
C13_NotFoundRejected ==
    [][\A u \in TaskUsers :
          (/\ now' = now /\ ret'.user = u
           /\ ret'.op \in {"update_task", "mark_complete", "mark_pending",
                           "delete_task"}
           /\ ret'.task_id \notin IdsOf(view_all_tasks(u))) =>
                /\ ~ret'.ok /\ ret'.msg = NotFoundMsg
                /\ TaskFile(u)' = TaskFile(u)]_vars

\* delete_task was refused for an id that is not in a collection that holds
\* another task.
C13_Witness ==
    /\ ret.op = "delete_task" /\ ~ret.ok /\ ret.msg = NotFoundMsg
    /\ view_all_tasks(Alice) # <<>>
    /\ ret.task_id \notin IdsOf(view_all_tasks(Alice))

----------------------------------------------------------------------------
(* add_task and delete_task, checked under SpecTasks *)

EmptyTitleMsg == "Task title cannot be empty"

\* C15: add_task with a title that is empty or only whitespace fails with
\* the validation failure, returns no id and writes nothing, whatever the
\* other arguments and the state of the collection; a failed add_task call
\* leaves the file of the collection as it was, so that the id the next
\* successful add_task returns is the id it would have returned without the
\* failed call.
C15_BlankTitleRejected ==
    [][\A u \in TaskUsers :
          (now' = now /\ ret'.op = "add_task" /\ ret'.user = u) =>
            /\ \A title \in {t \in Titles : Strip(t) = <<>>},
                  description \in Descriptions,
                  priority \in PriorityInputs, due_date \in DueDates :
                    add_task(files, tasks_file(u), title, description, priority,
                             due_date, now)
                      = [ok |-> FALSE, msg |-> EmptyTitleMsg, id |-> None,
                         save |-> FALSE, tasks |-> <<>>]
            /\ ~ret'.ok =>
                  /\ ret'.msg = EmptyTitleMsg /\ ret'.id = None
                  /\ TaskFile(u)' = TaskFile(u)
                  /\ issued' = issued
                  /\ \A title \in Titles :
                        add_task(files', tasks_file(u), title, <<>>, <<>>, <<>>, now').id
                          = add_task(files, tasks_file(u), title, <<>>, <<>>, <<>>, now).id]_vars

\* add_task has failed on a collection that holds a task.
C15_Witness ==
    /\ ret.op = "add_task" /\ ~ret.ok /\ ret.id = None
    /\ Len(view_all_tasks(Alice)) = 1
    /\ add_task(files, tasks_file(Alice), <<"a">>, <<>>, <<>>, <<>>, now).id
          = Some(view_all_tasks(Alice)[1].id + 1)

\* C16: every task created by a successful add_task has status Pending,
\* completed_at null, a trimmed non-empty title and a priority in {Low,
\* Medium, High}: the supplied priority when it is one of the three, and
\* Medium when it is empty or any other value.
C16_NewTaskFields ==
    [][\A u \in TaskUsers :
          /\ (now' = now /\ ret'.op = "add_task" /\ ret'.user = u) =>
                \A title \in {t \in Titles : Strip(t) # <<>>},
                   description \in Descriptions,
                   priority \in PriorityInputs \cup Priorities :
                      LET out == add_task(files, tasks_file(u), title,
                                          description, priority, <<>>, now)
                          task == out.tasks[Len(out.tasks)]
                      IN  out.ok =>
                            /\ task.status = "Pending" /\ task.completed_at = None
                            /\ task.title = Strip(title) /\ task.title # <<>>
                            /\ task.priority = IF priority \in Priorities
                                               THEN priority ELSE Medium
          /\ issued'[u] # issued[u] =>
                LET new == view_all_tasks(u)'
                    task == new[Len(new)]
                IN  /\ ret'.op = "add_task" /\ ret'.ok
                    /\ Some(task.id) = ret'.id
                    /\ task.status = "Pending" /\ task.completed_at = None
                    /\ task.title # <<>> /\ Strip(task.title) = task.title
                    /\ task.priority \in Priorities]_vars

\* add_task has created a task from a padded title and no priority, next to
\* a task created with priority High.
C16_Witness ==
    /\ ret.op = "add_task" /\ ret.ok
    /\ Len(view_all_tasks(Alice)) = 2
    /\ view_all_tasks(Alice)[1].priority = High
    /\ view_all_tasks(Alice)[2].priority = Medium
    /\ view_all_tasks(Alice)[2].title = <<"b">>
    /\ Some(view_all_tasks(Alice)[2].id) = ret.id

DeletedMsg == "Task {task_id} deleted successfully!"

view_task_by_id(fs, path, task_id) ==
    LET tasks == _load_tasks(fs, path)
        i == FirstWithId(tasks, task_id)
    IN  IF i = 0 THEN None ELSE Some(tasks[i])

----------------------------------------------------------------------------
(* The counts of the collection, checked under SpecTasks *)

\* Mutant of get_task_count: the total is the largest id
get_task_count_TotalFromIds(fs, path) ==
    LET tasks == _load_tasks(fs, path)
    IN  [total |-> IF tasks = <<>> THEN 0 ELSE MaxOf(IdsOf(tasks)),
         pending |-> Len(SelectSeq(tasks, LAMBDA t : t.status = "Pending")),
         completed |-> Len(SelectSeq(tasks, LAMBDA t : t.status = "Completed"))]

get_task_count(fs, path) ==
    LET tasks == _load_tasks(fs, path)
    IN  [total |-> Len(tasks),
         pending |-> Len(SelectSeq(tasks, LAMBDA t : t.status = "Pending")),
         completed |-> Len(SelectSeq(tasks, LAMBDA t : t.status = "Completed"))]

\* C18: after every step get_task_count returns total equal to the number of
\* tasks of the collection, pending and completed equal to the number of
\* tasks with that status, and total = pending + completed; a successful
\* mark_complete moves exactly one from pending to completed.
C18_Counts ==
    [][\A u \in managers' :
          LET new == view_all_tasks(u)'
              before == get_task_count(files, tasks_file(u))
              after == get_task_count(files', tasks_file(u))
          IN  /\ after.total = Cardinality(DOMAIN new)
              /\ after.pending
                    = Cardinality({i \in DOMAIN new : new[i].status = "Pending"})
              /\ after.completed
                    = Cardinality({i \in DOMAIN new : new[i].status = "Completed"})
              /\ after.total = after.pending + after.completed
              /\ (/\ now' = now /\ ret'.op = "mark_complete"
                  /\ ret'.user = u /\ ret'.ok) =>
                    /\ after.total = before.total
                    /\ after.pending = before.pending - 1
                    /\ after.completed = before.completed + 1]_vars

\* Two add_task calls and then a mark_complete: total 2, pending 1,
\* completed 1.
C18_Witness ==
    /\ ret.op = "mark_complete" /\ ret.ok
    /\ issued[Alice] = <<1, 2>>
    /\ get_task_count(files, tasks_file(Alice))
          = [total |-> 2, pending |-> 1, completed |-> 1]

----------------------------------------------------------------------------
(* The fields update_task changes, checked under SpecFields *)

\* C14: a successful update_task changes only the task addressed and only
\* these fields: title becomes the trimmed new title only if that is not
\* empty; description and due_date become the (trimmed) value supplied
\* whenever one is supplied, the empty string included; priority becomes the
\* new value only if that is Low, Medium or High, and an invalid priority
\* leaves it as it was while the call still succeeds; fields that are not
\* supplied, and id, status, created_at and completed_at, stay as they were.
C14_UpdateFrame ==
    [][\A u \in TaskUsers :
          LET old == view_all_tasks(u)
              new == view_all_tasks(u)'
              i == FirstWithId(old, ret'.task_id)
              kwargs == CHOOSE k \in FieldUpdates : DOMAIN k = ret'.keys
              has(k) == k \in ret'.keys
          IN  (ret'.op = "update_task" /\ ret'.user = u /\ i # 0) =>
                /\ ret'.ok /\ ret'.msg = UpdatedMsg
                /\ Len(new) = Len(old)
                /\ \A j \in DOMAIN old : j # i => new[j] = old[j]
                /\ new[i] =
                      [id |-> old[i].id,
                       title |->
                          IF has("title") /\ Strip(kwargs["title"]) # <<>>
                          THEN Strip(kwargs["title"]) ELSE old[i].title,
                       description |->
                          IF has("description") THEN Strip(kwargs["description"])
                          ELSE old[i].description,
                       priority |->
                          IF has("priority")
                             /\ kwargs["priority"] \in {Low, Medium, High}
                          THEN kwargs["priority"] ELSE old[i].priority,
                       due_date |->
                          IF has("due_date") THEN Strip(kwargs["due_date"])
                          ELSE old[i].due_date,
                       status |-> old[i].status,
                       created_at |-> old[i].created_at,
                       completed_at |-> old[i].completed_at]]_vars

\* update_task with a new title and the priority "Urgent" has succeeded on a
\* Completed task: the title is the new one, the priority is as before, and
\* the other task, whose description an earlier update emptied, has kept its
\* title.
C14_Witness ==
    /\ ret.op = "update_task" /\ ret.ok /\ ret.keys = {"title", "priority"}
    /\ Len(view_all_tasks(Alice)) = 2
    /\ \E i, j \in 1..2 :
          /\ view_all_tasks(Alice)[i].id = ret.task_id
          /\ view_all_tasks(Alice)[i].title = <<"b">>
          /\ view_all_tasks(Alice)[i].priority = High
          /\ view_all_tasks(Alice)[i].description = <<"d">>
          /\ view_all_tasks(Alice)[i].status = "Completed"
          /\ view_all_tasks(Alice)[j].title = <<"a">>
          /\ view_all_tasks(Alice)[j].description = <<>>

----------------------------------------------------------------------------
(* Missing and corrupt storage, checked under SpecFaults *)

\* user_exists and get_all_usernames (the usernames as a set: the order of
\* the list is that of the dict and is not modelled)
user_exists(f, username) == username \in DOMAIN _load_users(f)

get_all_usernames(f) == DOMAIN _load_users(f)

Faulty(f) == ~f.exists \/ ~f.valid

\* C19: when the file of a store is missing or does not parse as JSON, a
\* read takes it for an empty collection and reports no error.  The task
\* store then returns no tasks and zero counts, and the next successful
\* add_task returns id 1 and overwrites the file with that one task.  The
\* credential store then has no users, rejects every login, and accepts the
\* registration of a username registered before (with a password of at least
\* 6 characters), overwriting the file with that one user.
C19_FaultIsEmpty ==
    [][/\ \A u \in managers :
            Faulty(TaskFile(u)) =>
                /\ view_all_tasks(u) = <<>>
                /\ get_task_count(files, tasks_file(u))
                      = [total |-> 0, pending |-> 0, completed |-> 0]
                /\ \A id \in TaskIds :
                      view_task_by_id(files, tasks_file(u), id) = None
                /\ (ret'.op = "add_task" /\ ret'.user = u /\ ret'.ok) =>
                      /\ ret'.id = Some(1)
                      /\ Len(view_all_tasks(u)') = 1
                      /\ view_all_tasks(u)'[1].id = 1
                      /\ TaskFile(u)' = JsonFile(view_all_tasks(u)')
       /\ Faulty(users_file) =>
            /\ get_all_usernames(users_file) = {}
            /\ \A u \in Usernames :
                  /\ ~user_exists(users_file, u)
                  /\ \A p \in Passwords : ~login(users_file, u, p).ok
            /\ ret'.op = "login" => ~ret'.ok
            /\ (/\ ret'.op = "register" /\ ret'.user \in DOMAIN registered
                /\ Len(ret'.password) >= 6) =>
                  /\ ret'.ok
                  /\ get_all_usernames(users_file') = {ret'.user}
                  /\ users_file'.exists /\ users_file'.valid]_vars

\* After the file of a collection with a task was lost or damaged, add_task
\* has returned id 1 again and the collection holds that one task; the
\* credential store, which had lost its users, holds one user again.
C19_Witness ==
    /\ ret.op = "add_task" /\ ret.ok /\ ret.id = Some(1)
    /\ issued[Alice] = <<1, 1>>
    /\ Len(view_all_tasks(Alice)) = 1
    /\ Cardinality(DOMAIN registered) = 2
    /\ Cardinality(get_all_usernames(users_file)) = 1

----------------------------------------------------------------------------
(* The write of register, checked under SpecAuth *)

\* C20: when register(u, p) returns success the file of the credential store
\* holds u already: user_exists(u) is true and get_all_usernames has u, then
\* and in every later state; when register returns a failure the file is as
\* it was before the call.
C20_RegisterIsWritten ==
    [][/\ ret'.op = "register" =>
            IF ret'.ok
            THEN /\ ret'.user \in DOMAIN registered'
                 /\ users_file'.exists /\ users_file'.valid
                 /\ ret'.user \in DOMAIN users_file'.data
                 /\ user_exists(users_file', ret'.user)
                 /\ ret'.user \in get_all_usernames(users_file')
            ELSE users_file' = users_file
       /\ \A u \in DOMAIN registered' :
            /\ user_exists(users_file', u)
            /\ u \in get_all_usernames(users_file')]_vars

\* A register call has failed on a store that holds two users registered at
\* different times.
C20_Witness ==
    /\ ret.op = "register" /\ ~ret.ok
    /\ Cardinality(DOMAIN registered) = 2
    /\ get_all_usernames(users_file) = DOMAIN registered
    /\ \E u, v \in DOMAIN Users : Users[u].created_at # Users[v].created_at

----------------------------------------------------------------------------
(* The user records, checked under SpecCred *)

\* The calls of user_exists and get_all_usernames: they load and return
UserExists(username) ==
    /\ ret' = Result("user_exists", username, <<>>, 0, {},
                     user_exists(users_file, username), "", None)
    /\ UNCHANGED <<users_file, files, managers, now, issued, registered,
                 current_user, task_manager, menu, inflight>>

GetAllUsernames ==
    /\ ret' = Result("get_all_usernames", <<>>, <<>>, 0, {}, TRUE, "", None)
    /\ UNCHANGED <<users_file, files, managers, now, issued, registered,
                 current_user, task_manager, menu, inflight>>

\* The credential store with all its operations
NextCred ==
    \/ NextAuth
    \/ \E username \in Usernames : UserExists(username)
    \/ GetAllUsernames

SpecCred == Init /\ [][NextCred]_vars

\* C21: once a user record exists, no register, login, user_exists or
\* get_all_usernames call removes it or changes its password digest or its
\* created_at.
C21_RecordImmutable ==
    [][\A u \in DOMAIN Users :
          /\ u \in DOMAIN Users'
          /\ Users'[u].password = Users[u].password
          /\ Users'[u].created_at = Users[u].created_at]_vars

\* A register call with another password was refused, at a later time, for a
\* username that has a record.
C21_Witness ==
    /\ ret.op = "register" /\ ~ret.ok /\ ret.msg = DuplicateMsg
    /\ now = 1
    /\ ret.user \in DOMAIN Users
    /\ Users[ret.user].created_at = 0
    /\ Users[ret.user].password # _hash_password(ret.password)

\* C22: the value stored in a user record is always the digest of the
\* password the user registered with, of the digest's fixed length, and never
\* the password itself; login succeeds exactly when the digest of the
\* password supplied equals the value stored, so that a record holding a
\* plaintext password would not be matched by that password.
C22_DigestOnly ==
    /\ \A u \in DOMAIN Users :
          /\ u \in DOMAIN registered
          /\ Users[u].password = _hash_password(registered[u])
          /\ Users[u].password # registered[u]
          /\ Len(Users[u].password) = Len(_hash_password(<<>>))
    /\ \A u \in Usernames \ {<<>>}, p \in Passwords \ {<<>>} :
          /\ login(users_file, u, p).ok
                <=> (u \in DOMAIN Users /\ Users[u].password = _hash_password(p))
          /\ ~login(JsonFile(DictSet(Users, u,
                        [password |-> p, created_at |-> _get_timestamp])),
                    u, p).ok
    /\ (ret.op = "login" /\ ret.ok) =>
          /\ ret.user \in DOMAIN Users
          /\ Users[ret.user].password = _hash_password(ret.password)

\* A second user has registered; the two records hold the digests of two
\* different passwords.
C22_Witness ==
    /\ ret.op = "register" /\ ret.ok
    /\ Users[ret.user].password = _hash_password(ret.password)
    /\ \E v \in DOMAIN Users :
          /\ v # ret.user
          /\ registered[v] # ret.password
          /\ Users[v].password # Users[ret.user].password

----------------------------------------------------------------------------
(* The read operations of the task store *)

\* Mutant of view_tasks_by_status: the matching tasks, last one first
view_tasks_by_status_Reversed(fs, path, status) ==
    LET r == SelectSeq(_load_tasks(fs, path), LAMBDA task : task.status = status)
    IN  [k \in DOMAIN r |-> r[Len(r) + 1 - k]]

view_tasks_by_status(fs, path, status) ==
    SelectSeq(_load_tasks(fs, path), LAMBDA task : task.status = status)

view_tasks_by_priority(fs, path, priority) ==
    SelectSeq(_load_tasks(fs, path), LAMBDA task : task.priority = priority)

\* str.lower() on the letters A-Z; every other character is left as it is
UpperCase ==
    <<"A", "B", "C", "D", "E", "F", "G", "H", "I", "J", "K", "L", "M",
      "N", "O", "P", "Q", "R", "S", "T", "U", "V", "W", "X", "Y", "Z">>

LowerCase ==
    <<"a", "b", "c", "d", "e", "f", "g", "h", "i", "j", "k", "l", "m",
      "n", "o", "p", "q", "r", "s", "t", "u", "v", "w", "x", "y", "z">>

LowerChar(c) ==
    IF \E i \in DOMAIN UpperCase : UpperCase[i] = c
    THEN LowerCase[CHOOSE i \in DOMAIN UpperCase : UpperCase[i] = c]
    ELSE c

Lower(s) == [i \in DOMAIN s |-> LowerChar(s[i])]

\* k in s, for strings
IsSubstring(k, s) ==
    \E i \in 0..(Len(s) - Len(k)) : SubSeq(s, i + 1, i + Len(k)) = k

\* Mutant of search_tasks: the letter case is not ignored
search_tasks_CaseSensitive(fs, path, keyword) ==
    SelectSeq(_load_tasks(fs, path),
              LAMBDA task : \/ IsSubstring(keyword, task.title)
                            \/ IsSubstring(keyword, task.description))

search_tasks(fs, path, keyword) ==
    LET tasks == _load_tasks(fs, path)
        keyword_lower == Lower(keyword)
    IN  SelectSeq(tasks,
                  LAMBDA task : \/ IsSubstring(keyword_lower, Lower(task.title))
                                \/ IsSubstring(keyword_lower, Lower(task.description)))

Statuses == {"Pending", "Completed"}

\* The calls of the read operations: each loads the file and returns
\* Mutant of ViewAllTasks: what was loaded is written back
ViewAllTasks_WritesBack(username) ==
    /\ username \in managers
    /\ files' = _save_tasks(files, tasks_file(username),
                            _load_tasks(files, tasks_file(username)))
    /\ ret' = Result("view_all_tasks", username, <<>>, 0, {}, TRUE, "", None)
    /\ UNCHANGED <<users_file, managers, now, issued, registered,
                 current_user, task_manager, menu, inflight>>

ViewAllTasks(username) ==
    /\ username \in managers
    /\ ret' = Result("view_all_tasks", username, <<>>, 0, {}, TRUE, "", None)
    /\ UNCHANGED <<users_file, files, managers, now, issued, registered,
                 current_user, task_manager, menu, inflight>>

\* Mutant of ViewTaskById: the answer is taken from the ids this store has
\* returned, not from the file
ViewTaskById_Remembered(username, task_id) ==
    /\ username \in managers
    /\ ret' = Result("view_task_by_id", username, <<>>, task_id, {},
                     \E k \in DOMAIN issued[username] : issued[username][k] = task_id,
                     "", None)
    /\ UNCHANGED <<users_file, files, managers, now, issued, registered,
                 current_user, task_manager, menu, inflight>>

ViewTaskById(username, task_id) ==
    /\ username \in managers
    /\ ret' = Result("view_task_by_id", username, <<>>, task_id, {},
                     view_task_by_id(files, tasks_file(username), task_id) # None,
                     "", None)
    /\ UNCHANGED <<users_file, files, managers, now, issued, registered,
                 current_user, task_manager, menu, inflight>>

ViewTasksByStatus(username, status) ==
    /\ username \in managers
    /\ ret' = Result("view_tasks_by_status", username, <<>>, 0, {},
                     view_tasks_by_status(files, tasks_file(username), status) # <<>>,
                     "", None)
    /\ UNCHANGED <<users_file, files, managers, now, issued, registered,
                 current_user, task_manager, menu, inflight>>

ViewTasksByPriority(username, priority) ==
    /\ username \in managers
    /\ ret' = Result("view_tasks_by_priority", username, <<>>, 0, {},
                     view_tasks_by_priority(files, tasks_file(username), priority) # <<>>,
                     "", None)
    /\ UNCHANGED <<users_file, files, managers, now, issued, registered,
                 current_user, task_manager, menu, inflight>>

SearchTasks(username, keyword) ==
    /\ username \in managers
    /\ ret' = Result("search_tasks", username, <<>>, 0, {},
                     search_tasks(files, tasks_file(username), keyword) # <<>>,
                     "", None)
    /\ UNCHANGED <<users_file, files, managers, now, issued, registered,
                 current_user, task_manager, menu, inflight>>

GetTaskCount(username) ==
    /\ username \in managers
    /\ ret' = Result("get_task_count", username, <<>>, 0, {}, TRUE, "", None)
    /\ UNCHANGED <<users_file, files, managers, now, issued, registered,
                 current_user, task_manager, menu, inflight>>

Keywords == {<<>>, <<"A">>, <<"z">>}

TaskReads(username) ==
    \/ ViewAllTasks(username)
    \/ \E task_id \in TaskIds : ViewTaskById(username, task_id)
    \/ \E status \in Statuses : ViewTasksByStatus(username, status)
    \/ \E priority \in Priorities : ViewTasksByPriority(username, priority)
    \/ \E keyword \in Keywords : SearchTasks(username, keyword)
    \/ GetTaskCount(username)

ReadOps ==
    {"view_all_tasks", "view_task_by_id", "view_tasks_by_status",
     "view_tasks_by_priority", "search_tasks", "get_task_count",
     "login", "user_exists", "get_all_usernames"}

\* Both stores, reads and writes, with files that can be damaged
NextReads ==
    \/ \E username \in TaskUsers, password \in FaultPasswords :
            Register(username, password)
    \/ \E username \in TaskUsers, password \in FaultPasswords :
            Login(username, password)
    \/ \E username \in TaskUsers : UserExists(username)
    \/ GetAllUsernames
    \/ CorruptUsersFile
    \/ NewTaskManager(Alice)
    \/ \E priority \in {<<>>, High} : AddTask(Alice, <<"a">>, <<>>, priority, <<>>)
    \/ \E task_id \in TaskIds : MarkComplete(Alice, task_id)
    \/ CorruptTasksFile(Alice)
    \/ TaskReads(Alice)

SpecReads == Init /\ [][NextReads]_vars

\* C23: view_all_tasks, view_task_by_id, view_tasks_by_status,
\* view_tasks_by_priority, search_tasks and get_task_count of the task store,
\* and login, user_exists and get_all_usernames of the credential store,
\* never change a file, whether they find something or not and whether the
\* file parses or not.
C23_ReadsWriteNothing ==
    [][ret'.op \in ReadOps => (files' = files /\ users_file' = users_file)]_vars

\* view_all_tasks was called on a collection whose file is damaged and still
\* holds what it held.
C23_Witness ==
    /\ ret.op = "view_all_tasks"
    /\ TaskFile(Alice).exists /\ ~TaskFile(Alice).valid
    /\ TaskFile(Alice).data # <<>>
    /\ view_all_tasks(Alice) = <<>>

----------------------------------------------------------------------------
(* Files changed from outside between two calls, checked under SpecExternal *)

\* A collection and a user dict written by another program: a task with an
\* id this store has not returned, and a user this store has not registered
ExternalTask ==
    [id |-> MaxAdds, title |-> <<"x">>, description |-> <<>>,
     priority |-> Low, due_date |-> <<>>, status |-> "Pending",
     created_at |-> 0, completed_at |-> None]

ExternalUsers ==
    DictSet(<<>>, Bob, [password |-> _hash_password(<<"q", "p", "p", "p", "p", "p", "p">>),
                        created_at |-> 0])

ExternalTasksWrite(username, tasks) ==
    /\ username \in managers
    /\ files' = WriteFile(files, tasks_file(username), tasks)
    /\ ret' = NoCall
    /\ UNCHANGED <<users_file, managers, now, issued, registered,
                 current_user, task_manager, menu, inflight>>

ExternalUsersWrite(users) ==
    /\ users_file' = JsonFile(users)
    /\ ret' = NoCall
    /\ UNCHANGED <<files, managers, now, issued, registered,
                 current_user, task_manager, menu, inflight>>

NextExternal ==
    \/ NewTaskManager(Alice)
    \/ AddTask(Alice, <<"a">>, <<>>, <<>>, <<>>)
    \/ \E task_id \in 1..(MaxAdds + 1) : ViewTaskById(Alice, task_id)
    \/ \E task_id \in TaskIds : DeleteTask(Alice, task_id)
    \/ \E tasks \in {<<>>, <<ExternalTask>>} : ExternalTasksWrite(Alice, tasks)
    \/ \E username \in TaskUsers, password \in FaultPasswords :
            Register(username, password)
    \/ \E username \in TaskUsers, password \in Passwords : Login(username, password)
    \/ \E username \in TaskUsers : UserExists(username)
    \/ \E users \in {<<>>, ExternalUsers} : ExternalUsersWrite(users)

SpecExternal == Init /\ [][NextExternal]_vars

\* C24: no store keeps state between its calls.  Whatever was written to a
\* file from outside since the last call, a call works on what the file holds
\* when it is made: view_task_by_id finds exactly the ids in the file;
\* add_task returns the largest id in the file plus 1 and appends to what the
\* file holds; delete_task removes from what the file holds; user_exists and
\* login answer from the users in the file; register adds to them.
C24_NoStaleState ==
    [][/\ \A u \in managers :
            LET old == view_all_tasks(u)
                new == view_all_tasks(u)'
            IN  ret'.user = u =>
                  /\ ret'.op = "view_task_by_id" =>
                        (ret'.ok <=> ret'.task_id \in IdsOf(old))
                  /\ (ret'.op = "add_task" /\ ret'.ok) =>
                        /\ ret'.id = Some(IF old = <<>> THEN 1
                                          ELSE MaxOf(IdsOf(old)) + 1)
                        /\ Len(new) = Len(old) + 1
                        /\ SubSeq(new, 1, Len(old)) = old
                  /\ ret'.op = "delete_task" =>
                        /\ ret'.ok <=> ret'.task_id \in IdsOf(old)
                        /\ new = SelectSeq(old, LAMBDA t : t.id # ret'.task_id)
       /\ ret'.op = "user_exists" => (ret'.ok <=> ret'.user \in DOMAIN Users)
       /\ ret'.op = "login" =>
            (ret'.ok <=> /\ ret'.password # <<>>
                         /\ ret'.user \in DOMAIN Users
                         /\ Users[ret'.user].password = _hash_password(ret'.password))
       /\ ret'.op = "register" =>
            /\ ret'.ok <=> (Len(ret'.password) >= 6 /\ ret'.user \notin DOMAIN Users)
            /\ \A v \in DOMAIN Users : v \in DOMAIN Users' /\ Users'[v] = Users[v]]_vars

\* view_task_by_id has found a task with an id that this store never
\* returned from add_task: the task was written from outside.
C24_Witness ==
    /\ ret.op = "view_task_by_id" /\ ret.ok
    /\ issued[Alice] # <<>>
    /\ \A k \in DOMAIN issued[Alice] : issued[Alice][k] # ret.task_id

----------------------------------------------------------------------------
(* What the read operations return, checked under SpecReads *)

\* C25: view_all_tasks returns every task of the collection, in the order
\* in which the tasks were added; view_tasks_by_status and
\* view_tasks_by_priority return exactly the tasks whose status or priority
\* equals the argument (a status in another letter case matches nothing), in
\* that same order.
C25_ViewsInOrder ==
    \A u \in managers :
        LET path == tasks_file(u)
            all == view_all_tasks(u)
            LastIssue(id) ==
                CHOOSE k \in DOMAIN issued[u] :
                    /\ issued[u][k] = id
                    /\ \A l \in DOMAIN issued[u] : issued[u][l] = id => l <= k
            InOrderOf(r, Keep(_)) ==
                /\ \A k \in DOMAIN r : Keep(r[k])
                /\ \A i \in DOMAIN all : Keep(all[i]) =>
                        \E k \in DOMAIN r : r[k] = all[i]
                /\ Len(r) = Cardinality({i \in DOMAIN all : Keep(all[i])})
                /\ \A k, l \in DOMAIN r :
                        k < l => FirstWithId(all, r[k].id) < FirstWithId(all, r[l].id)
        IN  /\ TaskFile(u).valid => all = TaskFile(u).data
            /\ \A i, j \in DOMAIN all :
                    i < j => LastIssue(all[i].id) < LastIssue(all[j].id)
            /\ \A status \in Statuses \cup {"pending"} :
                    LET Keep(task) == task.status = status
                    IN  InOrderOf(view_tasks_by_status(files, path, status), Keep)
            /\ \A priority \in Priorities \cup {<<>>} :
                    LET Keep(task) == task.priority = priority
                    IN  InOrderOf(view_tasks_by_priority(files, path, priority), Keep)

\* Two tasks were added in a row, the first with priority High, and both are
\* Pending: view_tasks_by_status("Pending") returns both, in the order of
\* view_all_tasks, and view_tasks_by_priority("High") only the first.
C25_Witness ==
    /\ ret.op = "view_tasks_by_status" /\ ret.ok
    /\ issued[Alice] = <<1, 2>>
    /\ Len(view_all_tasks(Alice)) = 2
    /\ view_tasks_by_status(files, tasks_file(Alice), "Pending") = view_all_tasks(Alice)
    /\ view_tasks_by_status(files, tasks_file(Alice), "Completed") = <<>>
    /\ view_tasks_by_priority(files, tasks_file(Alice), High)
          = <<view_all_tasks(Alice)[1]>>

\* The tasks and keywords of a search
ReportDraft == <<"R", "e", "p", "o", "r", "t", " ", "D", "r", "a", "f", "t">>
EmailTeam == <<"E", "m", "a", "i", "l", " ", "T", "e", "a", "m">>

SearchKeywords ==
    {<<>>, <<"e", "p", "o", "r", "t">>, <<"E", "P", "O", "R", "T">>,
     <<"t", "e", "a", "m">>, <<"e">>, <<"t", " ", "d">>, <<"r", "e", "p", "o", "r", "t", "s">>}

NextSearch ==
    \/ NewTaskManager(Alice)
    \/ \E title \in {ReportDraft, EmailTeam}, description \in {<<>>, <<"T", "E", "A", "M">>} :
            AddTask(Alice, title, description, <<>>, <<>>)
    \/ \E task_id \in TaskIds : DeleteTask(Alice, task_id)
    \/ \E keyword \in SearchKeywords : SearchTasks(Alice, keyword)

SpecSearch == Init /\ [][NextSearch]_vars

\* C26: search_tasks(keyword) returns exactly the tasks whose title or
\* description contains the keyword as a substring when the case of the
\* letters is ignored, in the order of the collection, and no others.
C26_SearchMatches ==
    \A u \in managers, keyword \in SearchKeywords :
        LET all == view_all_tasks(u)
            found == search_tasks(files, tasks_file(u), keyword)
            SameLetter(a, b) ==
                \/ a = b
                \/ \E n \in DOMAIN UpperCase :
                      {a, b} = {UpperCase[n], LowerCase[n]}
            Contains(s) ==
                \E i \in 0..(Len(s) - Len(keyword)) :
                    \A k \in DOMAIN keyword : SameLetter(keyword[k], s[i + k])
            Matches(task) == Contains(task.title) \/ Contains(task.description)
        IN  /\ \A k \in DOMAIN found : Matches(found[k])
            /\ \A i \in DOMAIN all :
                    Matches(all[i]) => \E k \in DOMAIN found : found[k] = all[i]
            /\ Len(found) = Cardinality({i \in DOMAIN all : Matches(all[i])})
            /\ \A k, l \in DOMAIN found :
                    k < l => FirstWithId(all, found[k].id) < FirstWithId(all, found[l].id)

\* search_tasks was called on the tasks "Report Draft" and "Email Team" with
\* empty descriptions: "eport" and "EPORT" find only the first, "team" only
\* the second, "e" both.
C26_Witness ==
    /\ ret.op = "search_tasks" /\ ret.ok
    /\ Len(view_all_tasks(Alice)) = 2
    /\ view_all_tasks(Alice)[1].title = ReportDraft
    /\ view_all_tasks(Alice)[2].title = EmailTeam
    /\ view_all_tasks(Alice)[1].description = <<>>
    /\ view_all_tasks(Alice)[2].description = <<>>
    /\ search_tasks(files, tasks_file(Alice), <<"e", "p", "o", "r", "t">>)
          = <<view_all_tasks(Alice)[1]>>
    /\ search_tasks(files, tasks_file(Alice), <<"E", "P", "O", "R", "T">>)
          = <<view_all_tasks(Alice)[1]>>
    /\ search_tasks(files, tasks_file(Alice), <<"t", "e", "a", "m">>)
          = <<view_all_tasks(Alice)[2]>>
    /\ search_tasks(files, tasks_file(Alice), <<"e">>) = view_all_tasks(Alice)

----------------------------------------------------------------------------
(* The id and the place of a new task, checked under SpecTasks *)

\* C27: a successful add_task returns id 1 on an empty collection and the
\* largest id of the collection plus 1 otherwise; the new task, which has
\* that id, is the last of the collection, and the tasks before it are those
\* of before, unchanged.
C27_AddAppendsMaxPlusOne ==
    [][\A u \in TaskUsers :
          issued'[u] # issued[u] =>
              LET old == view_all_tasks(u)
                  new == view_all_tasks(u)'
              IN  /\ ret'.op = "add_task" /\ ret'.ok /\ ret'.user = u
                  /\ old = <<>> => ret'.id = Some(1)
                  /\ old # <<>> =>
                        \E m \in IdsOf(old) :
                            /\ \A n \in IdsOf(old) : n <= m
                            /\ ret'.id = Some(m + 1)
                  /\ Len(new) = Len(old) + 1
                  /\ \A i \in DOMAIN old : new[i] = old[i]
                  /\ Some(new[Len(new)].id) = ret'.id
                  /\ new[Len(new)].created_at = now]_vars

\* add_task has returned id 2 at a later time than the first task, which is
\* Completed, was created.
C27_Witness ==
    /\ ret.op = "add_task" /\ ret.ok /\ ret.id = Some(2)
    /\ now = 1
    /\ Len(view_all_tasks(Alice)) = 2
    /\ view_all_tasks(Alice)[1].id = 1
    /\ view_all_tasks(Alice)[1].status = "Completed"
    /\ view_all_tasks(Alice)[1].created_at = 0
    /\ view_all_tasks(Alice)[2].created_at = 1

----------------------------------------------------------------------------
(* The session driver: class TaskManagerApp *)

\* get_input: the line typed, stripped
get_input(line) == Strip(line)

NoChangesMsg == "No changes made."

\* TaskManagerApp.update_task for a task id that was typed as a number: what
\* is printed, whether the store's update_task is called and with which
\* keys, and the list that is saved
app_update_task(fs, path, task_id, title_in, description_in, priority_in, due_in) ==
    LET task == view_task_by_id(fs, path, task_id)
        new_title == get_input(title_in)
        new_description == get_input(description_in)
        new_priority == get_input(priority_in)
        new_due_date == get_input(due_in)
        keys == {k \in RecognizedKeys :
                    \/ k = "title" /\ new_title # <<>>
                    \/ k = "description"
                          /\ (new_description # <<>> \/ new_description = <<>>)
                    \/ k = "priority" /\ new_priority # <<>>
                    \/ k = "due_date"
                          /\ (new_due_date # <<>> \/ new_due_date = <<>>)}
        updates == [k \in keys |->
                        CASE k = "title" -> new_title
                          [] k = "description" -> new_description
                          [] k = "priority" -> new_priority
                          [] OTHER -> new_due_date]
        out == update_task(fs, path, task_id, updates)
    IN  IF task = None THEN
            [called |-> FALSE, keys |-> {}, ok |-> FALSE, msg |-> NotFoundMsg,
             save |-> FALSE, tasks |-> _load_tasks(fs, path)]
        ELSE IF keys = {} THEN
            [called |-> FALSE, keys |-> {}, ok |-> TRUE, msg |-> NoChangesMsg,
             save |-> FALSE, tasks |-> _load_tasks(fs, path)]
        ELSE
            [called |-> TRUE, keys |-> keys, ok |-> out.ok, msg |-> out.msg,
             save |-> out.save, tasks |-> out.tasks]

\* Choice 2 of the main menu
AppRegisterUser(username, password) ==
    /\ menu = "main"
    /\ get_input(username) # <<>> /\ get_input(password) # <<>>
    /\ Register(get_input(username), get_input(password))

\* Choice 1 of the main menu; run_task_menu is entered when it returns True
AppLoginUser(username_line, password_line) ==
    LET username == get_input(username_line)
        password == get_input(password_line)
        out == login(users_file, username, password)
    IN  /\ menu = "main"
        /\ username # <<>> /\ password # <<>>
        /\ current_user' = IF out.ok THEN Some(username) ELSE current_user
        /\ task_manager' = IF out.ok THEN Some(username) ELSE task_manager
        /\ managers' = IF out.ok THEN managers \cup {username} ELSE managers
        /\ files' = IF out.ok THEN _ensure_tasks_file(files, tasks_file(username))
                    ELSE files
        /\ menu' = IF out.ok THEN "task" ELSE "main"
        /\ ret' = Result("login_user", username, password, 0, {}, out.ok, out.msg, None)
        /\ UNCHANGED <<users_file, now, issued, registered, inflight>>

AppLogoutUser_KeepsStore ==
    /\ menu = "task"
    /\ current_user' = None
    /\ menu' = "main"
    /\ ret' = Result("logout_user", <<>>, <<>>, 0, {}, TRUE, "", None)
    /\ UNCHANGED <<users_file, files, managers, now, issued, registered,
                   task_manager, inflight>>

\* Choice 10 of the task menu
AppLogoutUser ==
    /\ menu = "task"
    /\ current_user' = None
    /\ task_manager' = None
    /\ menu' = "main"
    /\ ret' = Result("logout_user", <<>>, <<>>, 0, {}, TRUE, "", None)
    /\ UNCHANGED <<users_file, files, managers, now, issued, registered, inflight>>

\* Choice 1 of the task menu
AppAddTask(title_line, description_line, priority_line, due_date_line) ==
    LET title == get_input(title_line)
        priority == IF get_input(priority_line) = <<>> THEN Medium
                    ELSE get_input(priority_line)
        path == tasks_file(task_manager[1])
        out == add_task(files, path, title, get_input(description_line), priority,
                        get_input(due_date_line), _get_timestamp)
    IN  /\ menu = "task" /\ task_manager # None
        /\ title # <<>>
        /\ out.ok => AddsMade < MaxAdds
        /\ files' = IF out.save THEN _save_tasks(files, path, out.tasks) ELSE files
        /\ issued' = IF out.ok
                     THEN [issued EXCEPT ![task_manager[1]] = Append(@, out.id[1])]
                     ELSE issued
        /\ ret' = Result("app.add_task", task_manager[1], <<>>, 0, {}, out.ok,
                         out.msg, out.id)
        /\ UNCHANGED <<users_file, managers, now, registered,
                       current_user, task_manager, menu, inflight>>

\* Choice 6 of the task menu
AppUpdateTask(task_id, title_line, description_line, priority_line, due_date_line) ==
    LET path == tasks_file(task_manager[1])
        out == app_update_task(files, path, task_id, title_line, description_line,
                               priority_line, due_date_line)
    IN  /\ menu = "task" /\ task_manager # None
        /\ files' = IF out.save THEN _save_tasks(files, path, out.tasks) ELSE files
        /\ ret' = Result("app.update_task", task_manager[1], <<>>, task_id,
                         out.keys, out.ok, out.msg, None)
        /\ UNCHANGED <<users_file, managers, now, issued, registered,
                       current_user, task_manager, menu, inflight>>

\* Choice 7 of the task menu
AppMarkTaskComplete(task_id) ==
    LET path == tasks_file(task_manager[1])
        out == mark_complete(files, path, task_id, _get_timestamp)
    IN  /\ menu = "task" /\ task_manager # None
        /\ files' = IF out.save THEN _save_tasks(files, path, out.tasks) ELSE files
        /\ ret' = Result("app.mark_task_complete", task_manager[1], <<>>, task_id,
                         {}, out.ok, out.msg, None)
        /\ UNCHANGED <<users_file, managers, now, issued, registered,
                       current_user, task_manager, menu, inflight>>

\* What is typed at the prompts of the update flow
TitleLines == {<<>>, <<" ">>, <<"b">>}
DescriptionLines == {<<>>, <<" ">>, <<"e">>}
PriorityLines == {<<>>, Low}
DueDateLines == {<<>>, <<"y">>}

NextApp ==
    \/ \E username \in TaskUsers : AppRegisterUser(username, <<"p", "p", "p", "p", "p", "p">>)
    \/ \E username \in TaskUsers, password \in FaultPasswords :
            AppLoginUser(username, password)
    \/ AppLogoutUser
    \/ AppAddTask(<<"a">>, <<"d">>, <<>>, <<"x">>)
    \/ \E task_id \in TaskIds, title_line \in {<<>>, <<"b">>} :
            AppUpdateTask(task_id, title_line, <<>>, <<>>, <<>>)
    \/ \E task_id \in TaskIds : AppMarkTaskComplete(task_id)

SpecApp == Init /\ [][NextApp]_vars

\* C28: in the driver's update flow every field whose prompt is left blank
\* keeps the value that is stored, and when all four prompts are left blank
\* the task is unchanged, "No changes made." is printed and the store's
\* update_task is not called.
C28_BlankKeepsValue ==
    [][(ret'.op = "app.update_task" /\ task_manager # None) =>
          LET path == tasks_file(task_manager[1])
              old == _load_tasks(files, path)
              i == FirstWithId(old, ret'.task_id)
          IN  i # 0 =>
                \A title_line \in TitleLines, description_line \in DescriptionLines,
                   priority_line \in PriorityLines, due_date_line \in DueDateLines :
                      LET out == app_update_task(files, path, ret'.task_id,
                                     title_line, description_line,
                                     priority_line, due_date_line)
                          task == out.tasks[i]
                      IN  /\ get_input(title_line) = <<>> =>
                                task.title = old[i].title
                          /\ get_input(description_line) = <<>> =>
                                task.description = old[i].description
                          /\ get_input(priority_line) = <<>> =>
                                task.priority = old[i].priority
                          /\ get_input(due_date_line) = <<>> =>
                                task.due_date = old[i].due_date
                          /\ (/\ get_input(title_line) = <<>>
                              /\ get_input(description_line) = <<>>
                              /\ get_input(priority_line) = <<>>
                              /\ get_input(due_date_line) = <<>>) =>
                                /\ out.msg = NoChangesMsg /\ ~out.called
                                /\ out.tasks = old]_vars

AppTaskOps == {"app.add_task", "app.update_task", "app.mark_task_complete"}

\* C29: current_user is set exactly when a Task Store is bound, and the store
\* is bound to current_user; both become set only by a successful login, as
\* the name that logged in, and both are cleared by logout; a task operation
\* is dispatched only while current_user is set, on the store of
\* current_user; a failed login leaves the driver unauthenticated.
C29_SessionBinding ==
    [][/\ (current_user' = None) <=> (task_manager' = None)
       /\ task_manager' = current_user'
       /\ (menu' = "task") <=> (current_user' # None)
       /\ (current_user' # current_user \/ task_manager' # task_manager) =>
             \/ /\ ret'.op = "login_user" /\ ret'.ok
                /\ current_user = None /\ task_manager = None
                /\ current_user' = Some(ret'.user)
                /\ task_manager' = Some(ret'.user)
                /\ login(users_file, ret'.user, ret'.password).ok
             \/ /\ ret'.op = "logout_user"
                /\ current_user' = None /\ task_manager' = None
       /\ ret'.op = "logout_user" => (current_user' = None /\ task_manager' = None)
       /\ (ret'.op = "login_user" /\ ret'.ok) =>
             (current_user' = Some(ret'.user) /\ task_manager' = Some(ret'.user))
       /\ (ret'.op = "login_user" /\ ~ret'.ok) =>
             (current_user' = None /\ task_manager' = None /\ menu' = "main")
       /\ ret'.op \in AppTaskOps =>
             (current_user # None /\ ret'.user = current_user[1])]_vars

\* a login was refused, and later a login succeeded, a task was added through
\* the bound store, and the session was then closed by logout
C29_Witness ==
    /\ ret.op = "logout_user"
    /\ current_user = None /\ task_manager = None /\ menu = "main"
    /\ \E u \in TaskUsers : Len(_load_tasks(files, tasks_file(u))) > 0

----------------------------------------------------------------------------
(* add_task as the two steps it is made of, for TaskManager instances that *)
(* are bound to the same username and run side by side                     *)

\* the instance has read the file and computed the id, and has not saved yet
Loading == {i \in Instances : inflight[i].pc = "loaded"}

\* add_task up to and including _get_next_id (the title has been validated)
AddLoadStep(i, username, title) ==
    LET tasks == _load_tasks(files, tasks_file(username)) IN
    /\ username \in managers
    /\ inflight[i].pc # "loaded"
    /\ ~(title = <<>> \/ Strip(title) = <<>>)
    /\ Len(issued[username]) + Cardinality(Loading) < MaxAdds
    /\ inflight' = [inflight EXCEPT ![i] =
                        [pc |-> "loaded", tasks |-> tasks,
                         task_id |-> _get_next_id(tasks), title |-> title]]
    /\ UNCHANGED <<users_file, files, managers, now, ret, issued, registered,
                   current_user, task_manager, menu>>

\* Mutant of AddSaveStep: the file is read again under a lock before the
\* task is appended, and the id is computed from what is read
AddSaveStep_Reloads(i, username) ==
    LET path == tasks_file(username)
        tasks == _load_tasks(files, path)
        new_task == [id |-> _get_next_id(tasks),
                     title |-> Strip(inflight[i].title),
                     description |-> <<>>,
                     priority |-> Medium,
                     due_date |-> <<>>,
                     status |-> "Pending",
                     created_at |-> _get_timestamp,
                     completed_at |-> None]
    IN  /\ inflight[i].pc = "loaded"
        /\ files' = _save_tasks(files, path, Append(tasks, new_task))
        /\ inflight' = [inflight EXCEPT ![i].pc = "done",
                                        ![i].task_id = new_task.id]
        /\ issued' = [issued EXCEPT ![username] = Append(@, new_task.id)]
        /\ ret' = Result("add_task", username, <<>>, 0, {}, TRUE,
                         "Task '{title}' added successfully!", Some(new_task.id))
        /\ UNCHANGED <<users_file, managers, now, registered,
                       current_user, task_manager, menu>>

\* the rest of add_task: the new task is appended to the list that was
\* loaded, the list is saved, and the id that was computed is returned
\* (description and due date are the defaults, the priority is "Medium")
AddSaveStep(i, username) ==
    LET path == tasks_file(username)
        new_task == [id |-> inflight[i].task_id,
                     title |-> Strip(inflight[i].title),
                     description |-> <<>>,
                     priority |-> Medium,
                     due_date |-> <<>>,
                     status |-> "Pending",
                     created_at |-> _get_timestamp,
                     completed_at |-> None]
    IN  /\ inflight[i].pc = "loaded"
        /\ files' = _save_tasks(files, path, Append(inflight[i].tasks, new_task))
        /\ inflight' = [inflight EXCEPT ![i].pc = "done"]
        /\ issued' = [issued EXCEPT ![username] = Append(@, inflight[i].task_id)]
        /\ ret' = Result("add_task", username, <<>>, 0, {}, TRUE,
                         "Task '{title}' added successfully!",
                         Some(inflight[i].task_id))
        /\ UNCHANGED <<users_file, managers, now, registered,
                       current_user, task_manager, menu>>

RaceTitles == {<<"a">>, <<"b">>}

NextRace ==
    \/ Tick
    \/ NewTaskManager(Alice)
    \/ \E i \in Instances, title \in RaceTitles : AddLoadStep(i, Alice, title)
    \/ \E i \in Instances : AddSaveStep(i, Alice)
    \/ \E task_id \in TaskIds : MarkComplete(Alice, task_id)

SpecRace == Init /\ [][NextRace]_vars

\* C30: add_task is a load step and a save step with nothing that keeps
\* another instance out in between: the save step writes the list that was
\* loaded plus the new task, whatever the file holds by then, and returns
\* the id computed from the loaded list; so when two instances of one
\* username have both loaded the same list and both saved, both returned
\* success with the same id and the file holds that list plus one task
\* only, the one of the instance that saved last.
C30_LostUpdate ==
    /\ \A i \in Instances, j \in Instances :
          (/\ i # j
           /\ inflight[i].pc = "done" /\ inflight[j].pc = "done"
           /\ inflight[i].tasks = inflight[j].tasks) =>
              LET tasks == _load_tasks(files, tasks_file(Alice))
                  n == Len(inflight[i].tasks)
              IN  /\ inflight[i].task_id = inflight[j].task_id
                  /\ Len(tasks) = n + 1
                  /\ tasks[n + 1].id = inflight[i].task_id
                  /\ Len(issued[Alice]) >= 2
                  /\ issued[Alice][Len(issued[Alice])] = inflight[i].task_id
                  /\ issued[Alice][Len(issued[Alice]) - 1] = inflight[i].task_id
    /\ \A i \in Instances :
          inflight[i].pc # "idle" =>
              inflight[i].task_id = _get_next_id(inflight[i].tasks)

\* both instances returned success with id 1 for different titles, and the
\* file holds one task
C30_Witness ==
    /\ inflight[1].pc = "done" /\ inflight[2].pc = "done"
    /\ inflight[1].task_id = inflight[2].task_id
    /\ inflight[1].title # inflight[2].title
    /\ issued[Alice] = <<1, 1>>
    /\ ret.op = "add_task" /\ ret.ok /\ ret.id = Some(1)
    /\ Len(_load_tasks(files, tasks_file(Alice))) = 1

====
